---- MODULE Spec2Model ----
(***************************************************************************)
(* Audio pipeline of LexiRoot-Storyteller (src/services/audioUtils.ts):    *)
(* the byte classifier hasAudioHeader, the WAV framer addWavHeader, the    *)
(* base64 step decodeBase64, the two materializations createAudioUrl and   *)
(* downloadAudio, and the asynchronous playAudioData.                      *)
(*                                                                         *)
(* Bytes are integers 0..255, a Uint8Array is a sequence of bytes (byte    *)
(* offset k of the source is index k + 1 here).  A base64 string is a      *)
(* sequence of character codes: 0..63 are the sextet values of the base64  *)
(* alphabet, PadChar is '=', WsChar is a whitespace character and BadChar   *)
(* is a character outside the alphabet.                                    *)
(***************************************************************************)
EXTENDS Integers, Sequences, FiniteSets, TLC

VARIABLES
  bytes,     \* the byte buffer an operation is applied to (what the payload encodes)
  payload,   \* the base64 string handed to createAudioUrl / downloadAudio
  valid,     \* TRUE iff payload is the base64 encoding of bytes
  op,        \* the last operation applied
  args,      \* <<sampleRate, numChannels>> of the last direct addWavHeader call
  out,       \* bytes produced by the last operation (framed buffer, blob content)
  tag,       \* result of the last hasAudioHeader call: "none", "ContainerFile", "RawPCM"
  outcome,   \* how the last operation ended: "none", "returned", "threw" (the
             \* error left the function) or "caught" (caught and logged inside)
  wraps,     \* number of addWavHeader applications the payload's bytes went through
  frames,    \* number of addWavHeader applications out went through
  links,     \* number of times produced bytes were fed back as a new payload
  ops,       \* number of materializations made so far
  urls,      \* the object-URL registry: sequence of [blob, type, live]
  saves,     \* the downloads triggered: sequence of [filename, blob, type]
  calls,     \* the playAudioData invocations, by call id
  console,   \* console.error messages, in order
  modal,     \* the DetailModal component: its props, state, effects and DOM
  heap,      \* the buffers the classifier and the framer are called on: [buffers, input, results]
  app,       \* the App component: history, currentWords, requests in flight, localStorage
  details,   \* a call of generateWordDetails: its two requests and its result
  gen,       \* word generation: loading, isOnline and currentWords as set and as rendered, requests in flight
  busy       \* the audio controls: their busy flags, their pending awaits, the cached pronunciation

vars == <<bytes, payload, valid, op, args, out, tag, outcome, wraps, frames, links, ops,
          urls, saves, calls, console, modal, heap, app, details, gen, busy>>

----------------------------------------------------------------------------
(* Bounds of the model *)

\* longest buffer handed to the classifier on its own
MaxBufLen == 4
\* longest tail appended to a chosen head to form a payload's bytes
MaxTail == 1
\* most materializations (createAudioUrl / downloadAudio) in one behaviour
MaxOps == 2
\* most times produced bytes are fed back as a payload
MaxChain == 2
\* most concurrent playAudioData calls
MaxCalls == 2
\* most times the DetailModal is opened in one behaviour
MaxMounts == 2
\* most times the story audio of the open word is replaced in one behaviour
MaxRegens == 2
\* most calls of hasAudioHeader / addWavHeader on one input buffer
MaxPureCalls == 2
\* most parts in the content of an image response
MaxParts == 2
\* most word-generation requests in flight at once
MaxRequests == 3
\* most pronunciation requests in one behaviour
MaxTts == 3

----------------------------------------------------------------------------
(* Bytes and bit operations *)

\* a & b on 8-bit values
RECURSIVE BitAnd(_, _)
BitAnd(a, b) ==
  IF a = 0 \/ b = 0 THEN 0
  ELSE (a % 2) * (b % 2) + 2 * BitAnd(a \div 2, b \div 2)

\* bytes[i] of a Uint8Array: an index past the end reads undefined (here -1),
\* it never throws
At(b, i) == IF i < Len(b) THEN b[i + 1] ELSE -1

\* all sequences over S of length at most n
RECURSIVE SeqsUpTo(_, _)
SeqsUpTo(S, n) ==
  IF n = 0 THEN {<<>>}
  ELSE LET shorter == SeqsUpTo(S, n - 1)
       IN shorter \cup {Append(s, x) : s \in {t \in shorter : Len(t) = n - 1}, x \in S}

----------------------------------------------------------------------------
(* hasAudioHeader *)

\* faulty variant: the sync test accepts any byte1 with one of the three top bits set
hasAudioHeaderLooseSync(b) ==
  IF Len(b) < 4 THEN FALSE
  ELSE IF At(b, 0) = 82 /\ At(b, 1) = 73 /\ At(b, 2) = 70 /\ At(b, 3) = 70 THEN TRUE
  ELSE IF At(b, 0) = 73 /\ At(b, 1) = 68 /\ At(b, 2) = 51 THEN TRUE
  ELSE IF At(b, 0) = 79 /\ At(b, 1) = 103 /\ At(b, 2) = 103 /\ At(b, 3) = 83 THEN TRUE
  ELSE IF Len(b) > 1 /\ At(b, 0) = 255 /\ BitAnd(At(b, 1), 224) # 0 THEN TRUE
  ELSE FALSE

\* faulty variant: the length guard is missing
hasAudioHeaderNoLengthGuard(b) ==
  IF At(b, 0) = 82 /\ At(b, 1) = 73 /\ At(b, 2) = 70 /\ At(b, 3) = 70 THEN TRUE
  ELSE IF At(b, 0) = 73 /\ At(b, 1) = 68 /\ At(b, 2) = 51 THEN TRUE
  ELSE IF At(b, 0) = 79 /\ At(b, 1) = 103 /\ At(b, 2) = 103 /\ At(b, 3) = 83 THEN TRUE
  ELSE IF Len(b) > 1 /\ At(b, 0) = 255 /\ BitAnd(At(b, 1), 224) = 224 THEN TRUE
  ELSE FALSE

\* faulty variant: an ID3 tag counts only with a version byte of 3 or 4
hasAudioHeaderId3Version(b) ==
  IF Len(b) < 4 THEN FALSE
  ELSE IF At(b, 0) = 82 /\ At(b, 1) = 73 /\ At(b, 2) = 70 /\ At(b, 3) = 70 THEN TRUE
  ELSE IF At(b, 0) = 73 /\ At(b, 1) = 68 /\ At(b, 2) = 51 /\ At(b, 3) \in {3, 4} THEN TRUE
  ELSE IF At(b, 0) = 79 /\ At(b, 1) = 103 /\ At(b, 2) = 103 /\ At(b, 3) = 83 THEN TRUE
  ELSE IF Len(b) > 1 /\ At(b, 0) = 255 /\ BitAnd(At(b, 1), 224) = 224 THEN TRUE
  ELSE FALSE

\* faulty variant: a RIFF buffer counts only with "WAVE" at bytes 8-11
hasAudioHeaderRiffWave(b) ==
  IF Len(b) < 4 THEN FALSE
  ELSE IF At(b, 0) = 82 /\ At(b, 1) = 73 /\ At(b, 2) = 70 /\ At(b, 3) = 70
          /\ At(b, 8) = 87 /\ At(b, 9) = 65 /\ At(b, 10) = 86 /\ At(b, 11) = 69 THEN TRUE
  ELSE IF At(b, 0) = 73 /\ At(b, 1) = 68 /\ At(b, 2) = 51 THEN TRUE
  ELSE IF At(b, 0) = 79 /\ At(b, 1) = 103 /\ At(b, 2) = 103 /\ At(b, 3) = 83 THEN TRUE
  ELSE IF Len(b) > 1 /\ At(b, 0) = 255 /\ BitAnd(At(b, 1), 224) = 224 THEN TRUE
  ELSE FALSE

\* faulty variant: the RIFF signature is compared with "RIFX"
hasAudioHeaderWrongRiff(b) ==
  IF Len(b) < 4 THEN FALSE
  ELSE IF At(b, 0) = 82 /\ At(b, 1) = 73 /\ At(b, 2) = 70 /\ At(b, 3) = 88 THEN TRUE
  ELSE IF At(b, 0) = 73 /\ At(b, 1) = 68 /\ At(b, 2) = 51 THEN TRUE
  ELSE IF At(b, 0) = 79 /\ At(b, 1) = 103 /\ At(b, 2) = 103 /\ At(b, 3) = 83 THEN TRUE
  ELSE IF Len(b) > 1 /\ At(b, 0) = 255 /\ BitAnd(At(b, 1), 224) = 224 THEN TRUE
  ELSE FALSE

hasAudioHeader(b) ==
  IF Len(b) < 4 THEN FALSE
  ELSE IF At(b, 0) = 82 /\ At(b, 1) = 73 /\ At(b, 2) = 70 /\ At(b, 3) = 70 THEN TRUE
  ELSE IF At(b, 0) = 73 /\ At(b, 1) = 68 /\ At(b, 2) = 51 THEN TRUE
  ELSE IF At(b, 0) = 79 /\ At(b, 1) = 103 /\ At(b, 2) = 103 /\ At(b, 3) = 83 THEN TRUE
  ELSE IF Len(b) > 1 /\ At(b, 0) = 255 /\ BitAnd(At(b, 1), 224) = 224 THEN TRUE
  ELSE FALSE

\* the AudioFormatTag a boolean classification stands for
Tag(isFile) == IF isFile THEN "ContainerFile" ELSE "RawPCM"

----------------------------------------------------------------------------
(* DataView writes and addWavHeader *)

\* new ArrayBuffer(n): n zero bytes
ArrayBuffer(n) == [i \in 1..n |-> 0]

setUint8(view, offset, v) == [view EXCEPT ![offset + 1] = v % 256]

\* faulty variant: the littleEndian flag is left out of setUint16
setUint16BigEndian(view, offset, v) ==
  [view EXCEPT ![offset + 2] = v % 256,
               ![offset + 1] = (v \div 256) % 256]

\* view.setUint16(offset, v, true): the low 16 bits of v, little-endian
setUint16(view, offset, v) ==
  [view EXCEPT ![offset + 1] = v % 256,
               ![offset + 2] = (v \div 256) % 256]

\* faulty variant: the littleEndian flag is left out, so the value is written big-endian
setUint32BigEndian(view, offset, v) ==
  [view EXCEPT ![offset + 4] = v % 256,
               ![offset + 3] = (v \div 256) % 256,
               ![offset + 2] = (v \div 65536) % 256,
               ![offset + 1] = (v \div 16777216) % 256]

\* view.setUint32(offset, v, true): the low 32 bits of v, little-endian
setUint32(view, offset, v) ==
  [view EXCEPT ![offset + 1] = v % 256,
               ![offset + 2] = (v \div 256) % 256,
               ![offset + 3] = (v \div 65536) % 256,
               ![offset + 4] = (v \div 16777216) % 256]

\* writeString(view, offset, string), string given by its character codes
RECURSIVE writeStringFrom(_, _, _, _)
writeStringFrom(view, offset, string, i) ==
  IF i >= Len(string) THEN view
  ELSE writeStringFrom(setUint8(view, offset + i, string[i + 1]), offset, string, i + 1)

writeString(view, offset, string) == writeStringFrom(view, offset, string, 0)

\* character codes of the four chunk identifiers
StrRIFF == <<82, 73, 70, 70>>
StrWAVE == <<87, 65, 86, 69>>
StrFmt  == <<102, 109, 116, 32>>
StrData == <<100, 97, 116, 97>>

\* dest = new Uint8Array(buffer, 44); dest.set(samples)
setSamples(buffer, at, samples) ==
  [i \in 1..Len(buffer) |->
     IF i > at /\ i - at <= Len(samples) THEN samples[i - at] ELSE buffer[i]]

\* faulty variant: the block align is written for one channel, whatever
\* numChannels is
addWavHeaderMonoBlockAlign(samples, sampleRate, numChannels) ==
  LET b0  == ArrayBuffer(44 + Len(samples))
      b1  == writeString(b0, 0, StrRIFF)
      b2  == setUint32(b1, 4, 36 + Len(samples))
      b3  == writeString(b2, 8, StrWAVE)
      b4  == writeString(b3, 12, StrFmt)
      b5  == setUint32(b4, 16, 16)
      b6  == setUint16(b5, 20, 1)
      b7  == setUint16(b6, 22, numChannels)
      b8  == setUint32(b7, 24, sampleRate)
      b9  == setUint32(b8, 28, sampleRate * numChannels * 2)
      b10 == setUint16(b9, 32, 2)
      b11 == setUint16(b10, 34, 16)
      b12 == writeString(b11, 36, StrData)
      b13 == setUint32(b12, 40, Len(samples))
  IN setSamples(b13, 44, samples)

addWavHeader(samples, sampleRate, numChannels) ==
  LET b0  == ArrayBuffer(44 + Len(samples))
      b1  == writeString(b0, 0, StrRIFF)
      b2  == setUint32(b1, 4, 36 + Len(samples))
      b3  == writeString(b2, 8, StrWAVE)
      b4  == writeString(b3, 12, StrFmt)
      b5  == setUint32(b4, 16, 16)
      b6  == setUint16(b5, 20, 1)
      b7  == setUint16(b6, 22, numChannels)
      b8  == setUint32(b7, 24, sampleRate)
      b9  == setUint32(b8, 28, sampleRate * numChannels * 2)
      b10 == setUint16(b9, 32, numChannels * 2)
      b11 == setUint16(b10, 34, 16)
      b12 == writeString(b11, 36, StrData)
      b13 == setUint32(b12, 40, Len(samples))
  IN setSamples(b13, 44, samples)

----------------------------------------------------------------------------
(* base64: atob and decodeBase64; btoa is the producer's encoding *)

PadChar == 64
BadChar == 65
\* an ASCII whitespace character
WsChar == 66

\* atob first removes every ASCII whitespace character
RemoveWs(s) == SelectSeq(s, LAMBDA ch : ch # WsChar)

\* btoa: three bytes to four sextets, '=' padding on the last group
RECURSIVE btoa(_)
btoa(b) ==
  IF Len(b) = 0 THEN <<>>
  ELSE IF Len(b) = 1 THEN
    <<b[1] \div 4, (b[1] % 4) * 16, PadChar, PadChar>>
  ELSE IF Len(b) = 2 THEN
    <<b[1] \div 4, (b[1] % 4) * 16 + (b[2] \div 16), (b[2] % 16) * 4, PadChar>>
  ELSE
    <<b[1] \div 4, (b[1] % 4) * 16 + (b[2] \div 16),
      (b[2] % 16) * 4 + (b[3] \div 64), b[3] % 64>>
    \o btoa(SubSeq(b, 4, Len(b)))

\* the sextets of s, after removing one or two trailing '=' when the length
\* is a multiple of four
StripPad(s) ==
  LET n == Len(s)
  IN IF n > 0 /\ n % 4 = 0 /\ s[n] = PadChar
     THEN IF s[n - 1] = PadChar THEN SubSeq(s, 1, n - 2) ELSE SubSeq(s, 1, n - 1)
     ELSE s

\* the bytes of a stripped sextet sequence; leftover bits of a short last
\* group are discarded
RECURSIVE SextetsToBytes(_)
SextetsToBytes(s) ==
  IF Len(s) < 2 THEN <<>>
  ELSE IF Len(s) = 2 THEN <<s[1] * 4 + (s[2] \div 16)>>
  ELSE IF Len(s) = 3 THEN
    <<s[1] * 4 + (s[2] \div 16), (s[2] % 16) * 16 + (s[3] \div 4)>>
  ELSE
    <<s[1] * 4 + (s[2] \div 16), (s[2] % 16) * 16 + (s[3] \div 4),
      (s[3] % 4) * 64 + s[4]>>
    \o SextetsToBytes(SubSeq(s, 5, Len(s)))

\* atob(base64): [threw, bin]; it throws InvalidCharacterError when, after
\* stripping the padding, the length is 1 mod 4 or a character is outside
\* the alphabet
atob(s) ==
  LET t == StripPad(RemoveWs(s))
  IN IF Len(t) % 4 = 1 \/ (\E i \in 1..Len(t) : t[i] \notin 0..63)
     THEN [threw |-> TRUE, bin |-> <<>>]
     ELSE [threw |-> FALSE, bin |-> SextetsToBytes(t)]

\* decodeBase64: [threw, bytes]; the loop copies every character code of the
\* binary string into a fresh Uint8Array of the same length
decodeBase64(base64) ==
  LET r == atob(base64)
  IN IF r.threw THEN [threw |-> TRUE, bytes |-> <<>>]
     ELSE [threw |-> FALSE, bytes |-> [i \in 1..Len(r.bin) |-> r.bin[i]]]

----------------------------------------------------------------------------
(* createAudioUrl and downloadAudio *)

MimeWav == "audio/wav"

\* faulty variant: raw PCM is framed at 44100 Hz
createAudioUrlWrongRate(base64Audio) ==
  LET d == decodeBase64(base64Audio)
  IN IF d.threw
     THEN [threw |-> TRUE, blob |-> <<>>, type |-> MimeWav, wrapped |-> 0]
     ELSE IF hasAudioHeader(d.bytes)
     THEN [threw |-> FALSE, blob |-> d.bytes, type |-> MimeWav, wrapped |-> 0]
     ELSE [threw |-> FALSE, blob |-> addWavHeader(d.bytes, 44100, 1),
           type |-> MimeWav, wrapped |-> 1]

\* faulty variant: a decoding error is swallowed and an empty blob registered
createAudioUrlSwallows(base64Audio) ==
  LET d == decodeBase64(base64Audio)
  IN IF d.threw
     THEN [threw |-> FALSE, blob |-> <<>>, type |-> MimeWav, wrapped |-> 0]
     ELSE IF hasAudioHeader(d.bytes)
     THEN [threw |-> FALSE, blob |-> d.bytes, type |-> MimeWav, wrapped |-> 0]
     ELSE [threw |-> FALSE, blob |-> addWavHeader(d.bytes, 24000, 1),
           type |-> MimeWav, wrapped |-> 1]

\* the blob createAudioUrl builds: [threw, blob, type, wrapped]; wrapped is
\* the number of addWavHeader calls made.  decodeBase64 is not guarded, so
\* its error leaves the function
createAudioUrl(base64Audio) ==
  LET d == decodeBase64(base64Audio)
  IN IF d.threw
     THEN [threw |-> TRUE, blob |-> <<>>, type |-> MimeWav, wrapped |-> 0]
     ELSE IF hasAudioHeader(d.bytes)
     THEN [threw |-> FALSE, blob |-> d.bytes, type |-> MimeWav, wrapped |-> 0]
     ELSE [threw |-> FALSE, blob |-> addWavHeader(d.bytes, 24000, 1),
           type |-> MimeWav, wrapped |-> 1]

\* faulty variant: every payload is framed, whatever the classifier says
downloadAudioAlwaysWraps(base64Audio) ==
  LET d == decodeBase64(base64Audio)
  IN IF d.threw
     THEN [caught |-> TRUE, blob |-> <<>>, type |-> MimeWav, wrapped |-> 0]
     ELSE [caught |-> FALSE, blob |-> addWavHeader(d.bytes, 24000, 1),
           type |-> MimeWav, wrapped |-> 1]

\* faulty variant: raw PCM is saved as it is, without a header
downloadAudioNeverWraps(base64Audio) ==
  LET d == decodeBase64(base64Audio)
  IN IF d.threw
     THEN [caught |-> TRUE, blob |-> <<>>, type |-> MimeWav, wrapped |-> 0]
     ELSE [caught |-> FALSE, blob |-> d.bytes, type |-> MimeWav, wrapped |-> 0]

\* faulty variant: the base64 step is outside the try block and its error is
\* answered by saving an empty file
downloadAudioSavesOnError(base64Audio) ==
  LET d == decodeBase64(base64Audio)
  IN IF d.threw
     THEN [caught |-> FALSE, blob |-> <<>>, type |-> MimeWav, wrapped |-> 0]
     ELSE IF hasAudioHeader(d.bytes)
     THEN [caught |-> FALSE, blob |-> d.bytes, type |-> MimeWav, wrapped |-> 0]
     ELSE [caught |-> FALSE, blob |-> addWavHeader(d.bytes, 24000, 1),
           type |-> MimeWav, wrapped |-> 1]

\* the blob downloadAudio saves: [caught, blob, type, wrapped]; caught is
\* TRUE when the try block threw and the catch logged the error
downloadAudio(base64Audio) ==
  LET d == decodeBase64(base64Audio)
  IN IF d.threw
     THEN [caught |-> TRUE, blob |-> <<>>, type |-> MimeWav, wrapped |-> 0]
     ELSE IF hasAudioHeader(d.bytes)
     THEN [caught |-> FALSE, blob |-> d.bytes, type |-> MimeWav, wrapped |-> 0]
     ELSE [caught |-> FALSE, blob |-> addWavHeader(d.bytes, 24000, 1),
           type |-> MimeWav, wrapped |-> 1]

----------------------------------------------------------------------------
(* Inputs *)

\* byte values the signatures are made of, and near misses of them
SigBytes == {0, 51, 68, 70, 73, 79, 82, 83, 103, 223, 251, 255}

\* every buffer over SigBytes of length at most MaxBufLen
Buffers == SeqsUpTo(SigBytes, MaxBufLen)

\* four Int16 samples 0, 16384, -16384, 32767, little-endian
ScenarioA == <<0, 0, 0, 64, 0, 192, 255, 127>>

\* a minimal WAV file: 44-byte header (mono, 24000 Hz, 16 bit) and 4 data bytes
MinimalWav ==
  <<82, 73, 70, 70, 40, 0, 0, 0, 87, 65, 86, 69, 102, 109, 116, 32,
    16, 0, 0, 0, 1, 0, 1, 0, 192, 93, 0, 0, 128, 187, 0, 0, 2, 0, 16, 0,
    100, 97, 116, 97, 4, 0, 0, 0, 1, 2, 3, 4>>

Heads ==
  { <<>>, <<0, 1, 2>>, <<73, 68, 51>>, <<255, 251>>,
    <<82, 73, 70, 70>>, <<73, 68, 51, 3>>, <<79, 103, 103, 83>>,
    <<255, 251, 144, 0>>, <<82, 73, 70, 0>>, <<255, 223, 0, 0>>,
    ScenarioA, MinimalWav }

TailBytes == {0, 255}

PayloadBytes == {h \o t : h \in Heads, t \in SeqsUpTo(TailBytes, MaxTail)}

\* strings atob rejects: a character outside the alphabet, a length of 1 mod 4,
\* padding in a string whose length is not a multiple of four
Malformed ==
  { <<BadChar>>, <<20>>, <<20, 20, PadChar>>, <<20, BadChar, 20, 20>>,
    <<20, 20, 20, 20, 20>> }

Rates == {8000, 24000, 44100, 48000}
Chans == {1, 2}
Filenames == {"word_pronunciation.wav", "word_story.wav"}

\* channel counts at the edge of the 16 bit fields: the largest whose block
\* align fits, the first whose block align does not, the first that does not
\* fit itself
WideChans == {32767, 32768, 65536}

\* the (sampleRate, numChannels) pairs addWavHeader is called with
RateChans == (Rates \X Chans) \cup ({8000} \X WideChans)

\* the bytes handed to playAudioData: empty, odd and even lengths of raw PCM,
\* and a container file
PlayBytes == {<<>>, <<0, 1, 2>>, <<0, 128, 255, 127>>, ScenarioA, MinimalWav}

\* the payloads handed to playAudioData; a string of whitespace alone is a
\* non-empty string that decodes to no bytes
PlayPayloads == {btoa(b) : b \in PlayBytes} \cup {<<WsChar>>, <<BadChar>>, <<20>>}

\* the sampleRate argument of playAudioData: left out, or a rate
Omitted == -1
PlayRates == {Omitted, 48000}

NoBuffer == [numberOfChannels |-> 0, length |-> 0, sampleRate |-> 0, channelData |-> <<>>]

\* a call that was not made yet
IdleCall ==
  [pc |-> "idle", base64Audio |-> <<>>, rateArg |-> Omitted, sampleRate |-> 0,
   bytes |-> <<>>,
   context |-> "none", decode |-> "none", pcm |-> FALSE, buffer |-> NoBuffer,
   started |-> 0, playing |-> FALSE, closes |-> 0, result |-> "pending"]

NoCalls == [c \in 1..MaxCalls |-> IdleCall]

\* wordData.storyAudioBase64 of a word without story audio (undefined)
NoAudio == <<>>

\* the story audio a word can carry: none, raw PCM, a WAV file, or a stored
\* string that is not valid base64
StoryAudio == {NoAudio, btoa(ScenarioA), btoa(MinimalWav), <<20, BadChar, 20, 20>>}

\* no URL: the null of audioUrl, and an audio control that is not rendered
NoUrl == 0

\* 16 bit sample values: both ends of the range, zero and its neighbours
PcmSamples == {-32768, -1, 0, 1, 32767}

\* longest run of samples handed to the manual PCM path
MaxSamples == 2

\* the runs of samples played
PcmSampleSeqs == SeqsUpTo(PcmSamples, MaxSamples) \ {<<>>}

\* the two bytes of a sample as Gemini sends it: two's complement,
\* little-endian
SampleBytes(x) ==
  LET u == IF x < 0 THEN x + 65536 ELSE x
  IN <<u % 256, u \div 256>>

\* the bytes of a run of samples
RECURSIVE SamplesBytes(_)
SamplesBytes(ss) ==
  IF ss = <<>> THEN <<>> ELSE SampleBytes(Head(ss)) \o SamplesBytes(Tail(ss))

\* the ids generateId hands out: two words
WordIds == {1, 2}

\* no word is selected (selectedWordId is null)
NoWord == 0

\* a word without a story or an image (story and imageUrl are undefined)
NoStory == ""
NoImage == ""

\* the story texts: what generateWordDetails returns, what the catch of
\* handleCardClick writes, and what the user types into the modal
StoryGenerated == "a generated story"
StoryFailed == "Story generation failed."
StoryFailedRetry == "Story generation failed. Please try again later."
StoryEdited == "a story edited by the user"

\* the results generateWordDetails resolves with
Details == [story : {StoryGenerated, StoryFailed}, imageBase64 : {NoImage, "image"}]

\* a word as generateWords returns it and handleGenerate stores it in
\* currentWords
FreshWord(id) ==
  [id |-> id, story |-> NoStory, imageUrl |-> NoImage, isLoadingDetails |-> FALSE]

\* the App before it is mounted
NoApp ==
  [history |-> <<>>, currentWords |-> {}, selectedWordId |-> NoWord,
   isOnline |-> TRUE, requests |-> [w \in WordIds |-> <<>>], wordHistory |-> <<>>]

\* what the story promise falls back to when the Gemini response has no text
StoryNotGenerated == "Could not generate story."

\* a field that is absent (undefined)
Undefined == "undefined"

\* the parts of a response: a text part, an inlineData part with image data,
\* an inlineData part without data
TextPart == [inlineData |-> FALSE, data |-> Undefined]
Parts ==
  {TextPart} \cup [inlineData : {TRUE}, data : {"image", "other image", Undefined}]

\* the image responses: without candidates, or with the parts of the first
\* candidate's content
ImageResponses ==
  {[candidates |-> FALSE, parts |-> <<>>]}
    \cup [candidates : {TRUE}, parts : SeqsUpTo(Parts, MaxParts)]

\* the texts a story backend answers with
StoryTexts == {"", StoryGenerated}

\* the states of a promise
Pending == [status |-> "pending", value |-> Undefined]
Rejected == [status |-> "rejected", value |-> Undefined]
Fulfilled(v) == [status |-> "fulfilled", value |-> v]

\* no call of generateWordDetails was made
NoDetails ==
  [pc |-> "idle", useLocal |-> FALSE, story |-> Pending, image |-> Pending,
   result |-> [story |-> "", imageBase64 |-> ""]]

\* the state of the App that word generation reads: loading, isOnline, and
\* whether currentWords holds words
Unloaded(online) == [loading |-> FALSE, isOnline |-> online, words |-> FALSE]

\* the App before it is mounted: state is what the setters have set, view
\* what the last committed render (and so every handler's closure) holds
NoGen ==
  [mounted |-> FALSE, state |-> Unloaded(TRUE), view |-> Unloaded(TRUE),
   requests |-> 0, last |-> <<"none", "none">>]

\* the search queries: blank, and a word
Queries == {" ", "word"}

\* the busy flags of the audio controls: isPlaying of a WordCard,
\* isPlayingWord and isDownloadingWord of the DetailModal
Controls == {"isPlaying", "isPlayingWord", "isDownloadingWord"}

\* the controls of the DetailModal, which share pronunciationBase64
ModalControls == {"isPlayingWord", "isDownloadingWord"}

\* the payloads generatePronunciation may return: an audio file, raw PCM,
\* and text that is not base64
Pronunciations == {"file", "pcm", "malformed"}

\* pronunciationBase64 is null
NoPronunciation == "null"

\* a control at rest
Idle == [flag |-> FALSE, pc |-> "idle", payload |-> NoPronunciation]

\* the controls before any click
NoBusy ==
  [isOnline |-> TRUE, pronunciationBase64 |-> NoPronunciation,
   ctl |-> [c \in Controls |-> Idle], tts |-> 0, last |-> "none"]

\* no buffer object is looked at
NoHeap == [buffers |-> <<>>, input |-> 0, results |-> <<>>]

\* no DetailModal is rendered (selectedWord is undefined)
NoModal ==
  [mounted |-> FALSE, crashed |-> FALSE, storyAudioBase64 |-> NoAudio,
   audioUrl |-> NoUrl, cleanup |-> NoUrl, pending |-> NoUrl, src |-> NoUrl,
   revokes |-> <<>>, mounts |-> 0, regens |-> 0]

----------------------------------------------------------------------------
(* The library applied to one payload *)

\* a payload is the padded or the unpadded base64 encoding of some bytes,
\* or a malformed string
Init ==
  /\ \/ /\ bytes \in PayloadBytes
        /\ payload \in {btoa(bytes), StripPad(btoa(bytes))}
        /\ valid = TRUE
     \/ /\ bytes = <<>>
        /\ payload \in Malformed
        /\ valid = FALSE
  /\ op = "init"
  /\ args = <<0, 0>>
  /\ out = <<>>
  /\ tag = "none"
  /\ outcome = "none"
  /\ wraps = 0
  /\ frames = 0
  /\ links = 0
  /\ ops = 0
  /\ urls = <<>>
  /\ saves = <<>>
  /\ calls = NoCalls
  /\ console = <<>>
  /\ modal = NoModal
  /\ heap = NoHeap
  /\ app = NoApp
  /\ details = NoDetails
  /\ gen = NoGen
  /\ busy = NoBusy

\* addWavHeader applied directly to the input bytes
AddWavHeader(sampleRate, numChannels) ==
  /\ op = "init"
  /\ valid
  /\ op' = "addWavHeader"
  /\ args' = <<sampleRate, numChannels>>
  /\ out' = addWavHeader(bytes, sampleRate, numChannels)
  /\ frames' = wraps + 1
  /\ outcome' = "returned"
  /\ UNCHANGED <<bytes, payload, valid, tag, wraps, links, ops, urls, saves,
                 calls, console, modal, heap, app, details, gen, busy>>

\* createAudioUrl(payload): the blob is registered under a new object URL
CreateAudioUrl ==
  /\ ops < MaxOps
  /\ op # "addWavHeader"
  /\ LET r == createAudioUrl(payload)
     IN /\ op' = "createAudioUrl"
        /\ outcome' = IF r.threw THEN "threw" ELSE "returned"
        /\ out' = r.blob
        /\ frames' = wraps + r.wrapped
        /\ urls' = IF r.threw THEN urls
                   ELSE Append(urls, [blob |-> r.blob, type |-> r.type, live |-> TRUE])
  /\ ops' = ops + 1
  /\ UNCHANGED <<bytes, payload, valid, args, tag, wraps, links, saves, calls, console, modal, heap, app, details, gen, busy>>

\* downloadAudio(payload, filename): object URL created, anchor clicked, URL
\* revoked; any error is caught and logged
DownloadAudio(filename) ==
  /\ ops < MaxOps
  /\ op # "addWavHeader"
  /\ LET r == downloadAudio(payload)
     IN /\ op' = "downloadAudio"
        /\ outcome' = IF r.caught THEN "caught" ELSE "returned"
        /\ out' = r.blob
        /\ frames' = wraps + r.wrapped
        /\ urls' = IF r.caught THEN urls
                   ELSE Append(urls, [blob |-> r.blob, type |-> r.type, live |-> FALSE])
        /\ saves' = IF r.caught THEN saves
                    ELSE Append(saves, [filename |-> filename, blob |-> r.blob,
                                        type |-> r.type])
        /\ console' = IF r.caught THEN Append(console, "Error downloading audio")
                      ELSE console
  /\ ops' = ops + 1
  /\ UNCHANGED <<bytes, payload, valid, args, tag, wraps, links, calls, modal, heap, app, details, gen, busy>>

\* TRUE iff the last operation produced bytes
Produced ==
  /\ op \in {"addWavHeader", "createAudioUrl", "downloadAudio"}
  /\ outcome = "returned"

\* the bytes just produced come back as a payload (a stored file is read
\* again as an audio payload)
Refeed ==
  /\ links < MaxChain
  /\ Produced
  /\ bytes' = out
  /\ payload' = btoa(out)
  /\ valid' = TRUE
  /\ wraps' = frames
  /\ links' = links + 1
  /\ op' = "refeed"
  /\ UNCHANGED <<args, out, tag, outcome, frames, ops, urls, saves, calls, console, modal, heap, app, details, gen, busy>>

Next ==
  \/ \E r \in Rates, c \in Chans : AddWavHeader(r, c)
  \/ CreateAudioUrl
  \/ \E f \in Filenames : DownloadAudio(f)
  \/ Refeed

Spec == Init /\ [][Next]_vars

----------------------------------------------------------------------------
(* The framer applied to one buffer, channel counts up to the edge of the    *)
(* 16 bit fields                                                             *)

NextFrame == \E rc \in RateChans : AddWavHeader(rc[1], rc[2])

SpecFrame == Init /\ [][NextFrame]_vars

----------------------------------------------------------------------------
(* The classifier applied to one buffer *)

InitClassify ==
  /\ bytes \in Buffers \cup PayloadBytes
  /\ payload = <<>>
  /\ valid = FALSE
  /\ op = "init"
  /\ args = <<0, 0>>
  /\ out = <<>>
  /\ tag = "none"
  /\ outcome = "none"
  /\ wraps = 0
  /\ frames = 0
  /\ links = 0
  /\ ops = 0
  /\ urls = <<>>
  /\ saves = <<>>
  /\ calls = NoCalls
  /\ console = <<>>
  /\ modal = NoModal
  /\ heap = NoHeap
  /\ app = NoApp
  /\ details = NoDetails
  /\ gen = NoGen
  /\ busy = NoBusy

\* hasAudioHeader(bytes)
HasAudioHeader ==
  /\ op = "init"
  /\ op' = "hasAudioHeader"
  /\ tag' = Tag(hasAudioHeader(bytes))
  /\ outcome' = "returned"
  /\ UNCHANGED <<bytes, payload, valid, args, out, wraps, frames, links, ops,
                 urls, saves, calls, console, modal, heap, app, details, gen, busy>>

NextClassify == HasAudioHeader

SpecClassify == InitClassify /\ [][NextClassify]_vars

----------------------------------------------------------------------------
(* playAudioData *)

\* dataInt16[i] of new Int16Array(arrayBuffer): signed 16 bit, little-endian
Int16At(b, i) ==
  LET u == b[2 * i + 1] + 256 * b[2 * i + 2]
  IN IF u >= 32768 THEN u - 65536 ELSE u

\* faulty variant: the outer catch throws the error again, so the promise rejects
CaughtRethrows(call) == [call EXCEPT !.pc = "done", !.result = "rejected"]

\* the outer catch: the error is logged and the async function returns, so
\* its promise resolves
Caught(call) == [call EXCEPT !.pc = "done", !.result = "resolved"]

\* faulty variant: the samples are divided by 32767
PcmBufferDividesBy32767(b, sampleRate) ==
  [numberOfChannels |-> 1, length |-> Len(b) \div 2, sampleRate |-> sampleRate,
   channelData |-> [i \in 1..(Len(b) \div 2) |->
                      [num |-> Int16At(b, i - 1), den |-> 32767]]]

\* the single-channel buffer the manual path fills: every Int16 sample
\* divided by 32768, kept as the fraction num / den
PcmBuffer(b, sampleRate) ==
  [numberOfChannels |-> 1, length |-> Len(b) \div 2, sampleRate |-> sampleRate,
   channelData |-> [i \in 1..(Len(b) \div 2) |->
                      [num |-> Int16At(b, i - 1), den |-> 32768]]]

\* faulty variant: the buffer is created at 24000 Hz whatever sampleRate is
PcmFallbackFixedRate(call) ==
  LET ran == [call EXCEPT !.pcm = TRUE]
  IN IF Len(call.bytes) % 2 # 0 THEN [threw |-> TRUE, call |-> ran]
     ELSE IF Len(call.bytes) \div 2 = 0 THEN [threw |-> TRUE, call |-> ran]
     ELSE [threw |-> FALSE,
           call |-> [ran EXCEPT !.buffer = PcmBuffer(call.bytes, 24000),
                                !.started = @ + 1,
                                !.playing = TRUE,
                                !.pc = "done",
                                !.result = "resolved"]]

\* faulty variant: an odd byte length is cut to the whole samples and played
PcmFallbackTruncatesOdd(call) ==
  LET ran == [call EXCEPT !.pcm = TRUE]
  IN IF Len(call.bytes) \div 2 = 0 THEN [threw |-> TRUE, call |-> ran]
     ELSE [threw |-> FALSE,
           call |-> [ran EXCEPT !.buffer = PcmBuffer(call.bytes, call.sampleRate),
                                !.started = @ + 1,
                                !.playing = TRUE,
                                !.pc = "done",
                                !.result = "resolved"]]

\* the manual PCM path after a failed decode: [threw, call].  new Int16Array
\* throws a RangeError on a byte length that is not a multiple of 2, and
\* createBuffer a NotSupportedError on a length of 0 frames; otherwise the
\* buffer is filled, the source started and onended registered
PcmFallback(call) ==
  LET ran == [call EXCEPT !.pcm = TRUE]
  IN IF Len(call.bytes) % 2 # 0 THEN [threw |-> TRUE, call |-> ran]
     ELSE IF Len(call.bytes) \div 2 = 0 THEN [threw |-> TRUE, call |-> ran]
     ELSE [threw |-> FALSE,
           call |-> [ran EXCEPT !.buffer = PcmBuffer(call.bytes, call.sampleRate),
                                !.started = @ + 1,
                                !.playing = TRUE,
                                !.pc = "done",
                                !.result = "resolved"]]

\* the call as it stands once the context is created
Entered(call, base64Audio, sampleRate) ==
  [call EXCEPT !.base64Audio = base64Audio,
               !.rateArg = sampleRate,
               !.sampleRate = IF sampleRate = Omitted THEN 24000 ELSE sampleRate,
               !.context = "open"]

\* faulty variant: the classifier is asked first, and bytes it calls RawPCM go to the
\* manual PCM path without a decode attempt
PlayAudioDataClassifiesFirst(c, base64Audio, sampleRate) ==
  /\ calls[c].pc = "idle"
  /\ LET d == decodeBase64(base64Audio)
         entered == Entered(calls[c], base64Audio, sampleRate)
         r == PcmFallback([entered EXCEPT !.bytes = d.bytes])
     IN IF d.threw
        THEN /\ calls' = [calls EXCEPT ![c] = Caught(entered)]
             /\ console' = Append(console, "Error playing audio")
        ELSE IF hasAudioHeader(d.bytes)
        THEN /\ calls' = [calls EXCEPT ![c] =
                            [entered EXCEPT !.bytes = d.bytes,
                                            !.decode = "pending",
                                            !.pc = "awaitDecode"]]
             /\ console' = console
        ELSE IF r.threw
        THEN /\ calls' = [calls EXCEPT ![c] = Caught(r.call)]
             /\ console' = Append(console, "Error playing audio")
        ELSE /\ calls' = [calls EXCEPT ![c] = r.call]
             /\ console' = console
  /\ UNCHANGED <<bytes, payload, valid, op, args, out, tag, outcome, wraps,
                 frames, links, ops, urls, saves, modal, heap, app, details, gen, busy>>

\* playAudioData(base64Audio, sampleRate) up to its first await: a context is
\* created, the payload decoded, and decodeAudioData called on a copy of the
\* bytes; an error of decodeBase64 goes to the outer catch
PlayAudioData(c, base64Audio, sampleRate) ==
  /\ calls[c].pc = "idle"
  /\ LET d == decodeBase64(base64Audio)
         entered == Entered(calls[c], base64Audio, sampleRate)
     IN IF d.threw
        THEN /\ calls' = [calls EXCEPT ![c] = Caught(entered)]
             /\ console' = Append(console, "Error playing audio")
        ELSE /\ calls' = [calls EXCEPT ![c] =
                            [entered EXCEPT !.bytes = d.bytes,
                                            !.decode = "pending",
                                            !.pc = "awaitDecode"]]
             /\ console' = console
  /\ UNCHANGED <<bytes, payload, valid, op, args, out, tag, outcome, wraps,
                 frames, links, ops, urls, saves, modal, heap, app, details, gen, busy>>

\* faulty variant: after a successful decode the function waits for the end of
\* the playback before it returns
DecodeAudioDataResolvesAwaitsEnd(c) ==
  /\ calls[c].pc = "awaitDecode"
  /\ Len(calls[c].bytes) > 0
  /\ calls' = [calls EXCEPT ![c] =
                 [@ EXCEPT !.decode = "ok",
                           !.started = @ + 1,
                           !.playing = TRUE,
                           !.pc = "done"]]
  /\ UNCHANGED <<bytes, payload, valid, op, args, out, tag, outcome, wraps,
                 frames, links, ops, urls, saves, console, modal, heap, app, details, gen, busy>>

\* decodeAudioData resolves: the decoded buffer is played and the function
\* returns.  No decoder accepts an empty buffer
DecodeAudioDataResolves(c) ==
  /\ calls[c].pc = "awaitDecode"
  /\ Len(calls[c].bytes) > 0
  /\ calls' = [calls EXCEPT ![c] =
                 [@ EXCEPT !.decode = "ok",
                           !.started = @ + 1,
                           !.playing = TRUE,
                           !.pc = "done",
                           !.result = "resolved"]]
  /\ UNCHANGED <<bytes, payload, valid, op, args, out, tag, outcome, wraps,
                 frames, links, ops, urls, saves, console, modal, heap, app, details, gen, busy>>

\* decodeAudioData rejects: the inner catch swallows the error and the
\* manual PCM path runs; its errors go to the outer catch
DecodeAudioDataRejects(c) ==
  /\ calls[c].pc = "awaitDecode"
  /\ LET r == PcmFallback([calls[c] EXCEPT !.decode = "fail"])
     IN IF r.threw
        THEN /\ calls' = [calls EXCEPT ![c] = Caught(r.call)]
             /\ console' = Append(console, "Error playing audio")
        ELSE /\ calls' = [calls EXCEPT ![c] = r.call]
             /\ console' = console
  /\ UNCHANGED <<bytes, payload, valid, op, args, out, tag, outcome, wraps,
                 frames, links, ops, urls, saves, modal, heap, app, details, gen, busy>>

\* faulty variant: the ended event leaves the context open
PlaybackEndsLeavesOpen(c) ==
  /\ calls[c].playing
  /\ calls' = [calls EXCEPT ![c] = [@ EXCEPT !.playing = FALSE]]
  /\ UNCHANGED <<bytes, payload, valid, op, args, out, tag, outcome, wraps,
                 frames, links, ops, urls, saves, console, modal, heap, app, details, gen, busy>>

\* faulty variant: the ended event of one call closes every open context
PlaybackEndsClosesAll(c) ==
  /\ calls[c].playing
  /\ calls' = [d \in 1..MaxCalls |->
                 IF calls[d].context = "open"
                 THEN [calls[d] EXCEPT !.playing = FALSE,
                                       !.context = "closed",
                                       !.closes = @ + 1]
                 ELSE calls[d]]
  /\ UNCHANGED <<bytes, payload, valid, op, args, out, tag, outcome, wraps,
                 frames, links, ops, urls, saves, console, modal, heap, app, details, gen, busy>>

\* the source's ended event: onended closes the call's context
PlaybackEnds(c) ==
  /\ calls[c].playing
  /\ calls' = [calls EXCEPT ![c] =
                 [@ EXCEPT !.playing = FALSE,
                           !.context = "closed",
                           !.closes = @ + 1]]
  /\ UNCHANGED <<bytes, payload, valid, op, args, out, tag, outcome, wraps,
                 frames, links, ops, urls, saves, console, modal, heap, app, details, gen, busy>>

InitPlay ==
  /\ calls = NoCalls
  /\ console = <<>>
  /\ modal = NoModal
  /\ heap = NoHeap
  /\ app = NoApp
  /\ details = NoDetails
  /\ gen = NoGen
  /\ busy = NoBusy
  /\ bytes = <<>>
  /\ payload = <<>>
  /\ valid = FALSE
  /\ op = "init"
  /\ args = <<0, 0>>
  /\ out = <<>>
  /\ tag = "none"
  /\ outcome = "none"
  /\ wraps = 0
  /\ frames = 0
  /\ links = 0
  /\ ops = 0
  /\ urls = <<>>
  /\ saves = <<>>

NextPlay ==
  \E c \in 1..MaxCalls :
    \/ \E p \in PlayPayloads, r \in PlayRates : PlayAudioData(c, p, r)
    \/ DecodeAudioDataResolves(c)
    \/ DecodeAudioDataRejects(c)
    \/ PlaybackEnds(c)

SpecPlay == InitPlay /\ [][NextPlay]_vars

----------------------------------------------------------------------------
(* One operation applied to one payload: createAudioUrl, downloadAudio or    *)
(* playAudioData                                                             *)

\* nothing has been applied to the payload yet
Untouched == op = "init" /\ ops = 0 /\ calls[1].pc = "idle"

NextPayload ==
  \/ Untouched /\ CreateAudioUrl
  \/ Untouched /\ \E f \in Filenames : DownloadAudio(f)
  \/ Untouched /\ \E r \in PlayRates : PlayAudioData(1, payload, r)
  \/ DecodeAudioDataResolves(1)
  \/ DecodeAudioDataRejects(1)
  \/ PlaybackEnds(1)

SpecPayload == Init /\ [][NextPayload]_vars

----------------------------------------------------------------------------
(* DetailModal: the object URL of the story audio                            *)
(*                                                                           *)
(* A URL is its index in urls.  Effect 1 is the effect with the dependency   *)
(* [audioUrl], whose cleanup revokes the audioUrl it captured; effect 2 is   *)
(* the effect with the dependency [wordData.storyAudioBase64], which calls   *)
(* createAudioUrl and setAudioUrl.  A render, its commit and the effects of  *)
(* that commit are one step.  The render that setAudioUrl schedules from     *)
(* inside effect 2 is a later task, so a click can be handled before it.     *)

\* URL.revokeObjectURL(u) on the registry, called only when u is not null
revokeObjectURL(registry, u) ==
  IF u = NoUrl THEN registry ELSE [registry EXCEPT ![u].live = FALSE]

\* the revocations counted per URL after the cleanup of effect 1 ran on u
Revoked(counts, u) ==
  IF u = NoUrl THEN counts ELSE [counts EXCEPT ![u] = @ + 1]

\* the state of a component that has just been mounted with story audio p
Mounted(m, p) ==
  [m EXCEPT !.mounted = TRUE, !.storyAudioBase64 = p, !.audioUrl = NoUrl,
            !.cleanup = NoUrl, !.pending = NoUrl, !.src = NoUrl]

\* the component is removed: the cleanup of effect 1 revokes the URL it
\* captured, the state and a render still scheduled are dropped
Unmounted(m) ==
  [m EXCEPT !.mounted = FALSE, !.audioUrl = NoUrl, !.cleanup = NoUrl,
            !.pending = NoUrl, !.src = NoUrl,
            !.revokes = Revoked(m.revokes, m.cleanup)]

\* a commit in which audioUrl is a: the audio control is rendered with src a,
\* and when a differs from the last committed audioUrl the old cleanup of
\* effect 1 runs and a new one capturing a is registered
Committed(m, a) ==
  IF a = m.audioUrl THEN [m EXCEPT !.src = a]
  ELSE [m EXCEPT !.audioUrl = a, !.src = a, !.cleanup = a, !.pending = NoUrl,
                 !.revokes = Revoked(m.revokes, m.cleanup)]

\* the registry after that commit
CommittedUrls(m, a) ==
  IF a = m.audioUrl THEN urls ELSE revokeObjectURL(urls, m.cleanup)

\* effect 2 on a component in state m with registry us: createAudioUrl and
\* setAudioUrl; an error of createAudioUrl leaves the effect, and React
\* removes the tree
EffectCreateUrl(m, us) ==
  LET r == createAudioUrl(m.storyAudioBase64)
  IN IF m.storyAudioBase64 = NoAudio THEN [modal |-> m, urls |-> us]
     ELSE IF r.threw
     THEN [modal |-> [Unmounted(m) EXCEPT !.crashed = TRUE],
           urls |-> revokeObjectURL(us, m.cleanup)]
     ELSE [modal |-> [m EXCEPT !.pending = Len(us) + 1,
                               !.revokes = Append(@, 0)],
           urls |-> Append(us, [blob |-> r.blob, type |-> r.type, live |-> TRUE])]

\* a word is selected: DetailModal mounts with wordData.storyAudioBase64 = p,
\* effect 1 registers a cleanup that captured null, effect 2 runs
ModalOpen(p) ==
  /\ ~modal.mounted /\ ~modal.crashed
  /\ modal.mounts < MaxMounts
  /\ LET e == EffectCreateUrl([Mounted(modal, p) EXCEPT !.mounts = @ + 1], urls)
     IN modal' = e.modal /\ urls' = e.urls
  /\ UNCHANGED <<bytes, payload, valid, op, args, out, tag, outcome, wraps,
                 frames, links, ops, saves, calls, console, heap, app, details, gen, busy>>

\* the render scheduled by setAudioUrl: audioUrl becomes the URL effect 2
\* created
ModalRerender ==
  /\ modal.mounted
  /\ modal.pending # NoUrl
  /\ modal' = Committed(modal, modal.pending)
  /\ urls' = CommittedUrls(modal, modal.pending)
  /\ UNCHANGED <<bytes, payload, valid, op, args, out, tag, outcome, wraps,
                 frames, links, ops, saves, calls, console, heap, app, details, gen, busy>>

\* onUpdateWord(id, {storyAudioBase64: p}) with a new payload: the parent
\* renders the modal with the new prop (a setAudioUrl still scheduled is
\* rendered with it), then effect 2 runs for the new payload
ModalUpdateAudio(p) ==
  /\ modal.mounted
  /\ modal.regens < MaxRegens
  /\ p # NoAudio
  /\ p # modal.storyAudioBase64
  /\ LET a == IF modal.pending # NoUrl THEN modal.pending ELSE modal.audioUrl
         c == [Committed(modal, a) EXCEPT !.storyAudioBase64 = p,
                                          !.regens = @ + 1]
         e == EffectCreateUrl(c, CommittedUrls(modal, a))
     IN modal' = e.modal /\ urls' = e.urls
  /\ UNCHANGED <<bytes, payload, valid, op, args, out, tag, outcome, wraps,
                 frames, links, ops, saves, calls, console, heap, app, details, gen, busy>>

\* onClose: setSelectedWordId(null) removes the modal
ModalClose ==
  /\ modal.mounted
  /\ modal' = Unmounted(modal)
  /\ urls' = revokeObjectURL(urls, modal.cleanup)
  /\ UNCHANGED <<bytes, payload, valid, op, args, out, tag, outcome, wraps,
                 frames, links, ops, saves, calls, console, heap, app, details, gen, busy>>

InitModal ==
  /\ modal = NoModal
  /\ heap = NoHeap
  /\ app = NoApp
  /\ details = NoDetails
  /\ gen = NoGen
  /\ busy = NoBusy
  /\ urls = <<>>
  /\ bytes = <<>>
  /\ payload = <<>>
  /\ valid = FALSE
  /\ op = "init"
  /\ args = <<0, 0>>
  /\ out = <<>>
  /\ tag = "none"
  /\ outcome = "none"
  /\ wraps = 0
  /\ frames = 0
  /\ links = 0
  /\ ops = 0
  /\ saves = <<>>
  /\ calls = NoCalls
  /\ console = <<>>

NextModal ==
  \/ \E p \in StoryAudio : ModalOpen(p)
  \/ ModalRerender
  \/ \E p \in StoryAudio : ModalUpdateAudio(p)
  \/ ModalClose

SpecModal == InitModal /\ [][NextModal]_vars

----------------------------------------------------------------------------
(* The classifier and the framer called on one buffer object                 *)
(*                                                                           *)
(* heap.buffers[k] is the content of the k-th ArrayBuffer allocated; the     *)
(* Uint8Array handed in is the view of buffer heap.input, a Uint8Array       *)
(* handed back is named by the buffer it views.                              *)

\* faulty variant: the framer keeps one scratch buffer between calls and hands
\* it back again
CallAddWavHeaderReusesBuffer(sampleRate, numChannels) ==
  /\ Len(heap.results) < MaxPureCalls
  /\ LET framed == addWavHeader(heap.buffers[heap.input], sampleRate, numChannels)
         scratch == heap.input + 1
     IN heap' = [heap EXCEPT
                   !.buffers = IF Len(@) >= scratch THEN [@ EXCEPT ![scratch] = framed]
                               ELSE Append(@, framed),
                   !.results = Append(@, [fn |-> "addWavHeader",
                                          args |-> <<sampleRate, numChannels>>,
                                          value |-> scratch])]
  /\ UNCHANGED <<bytes, payload, valid, op, args, out, tag, outcome, wraps,
                 frames, links, ops, urls, saves, calls, console, modal, app, details, gen, busy>>

\* hasAudioHeader(bytes): reads bytes.length and bytes[0..3], writes nothing
CallHasAudioHeader ==
  /\ Len(heap.results) < MaxPureCalls
  /\ heap' = [heap EXCEPT
                !.results = Append(@, [fn |-> "hasAudioHeader",
                                       args |-> <<>>,
                                       value |-> hasAudioHeader(heap.buffers[heap.input])])]
  /\ UNCHANGED <<bytes, payload, valid, op, args, out, tag, outcome, wraps,
                 frames, links, ops, urls, saves, calls, console, modal, app, details, gen, busy>>

\* addWavHeader(samples, sampleRate, numChannels): new ArrayBuffer(44 + n) is
\* a further buffer, every write goes to it, and the Uint8Array returned
\* views it
CallAddWavHeader(sampleRate, numChannels) ==
  /\ Len(heap.results) < MaxPureCalls
  /\ heap' = [heap EXCEPT
                !.buffers = Append(@, addWavHeader(heap.buffers[heap.input],
                                                   sampleRate, numChannels)),
                !.results = Append(@, [fn |-> "addWavHeader",
                                       args |-> <<sampleRate, numChannels>>,
                                       value |-> Len(heap.buffers) + 1])]
  /\ UNCHANGED <<bytes, payload, valid, op, args, out, tag, outcome, wraps,
                 frames, links, ops, urls, saves, calls, console, modal, app, details, gen, busy>>

InitPure ==
  /\ \E b \in Heads : heap = [buffers |-> <<b>>, input |-> 1, results |-> <<>>]
  /\ app = NoApp
  /\ details = NoDetails
  /\ gen = NoGen
  /\ busy = NoBusy
  /\ modal = NoModal
  /\ urls = <<>>
  /\ bytes = <<>>
  /\ payload = <<>>
  /\ valid = FALSE
  /\ op = "init"
  /\ args = <<0, 0>>
  /\ out = <<>>
  /\ tag = "none"
  /\ outcome = "none"
  /\ wraps = 0
  /\ frames = 0
  /\ links = 0
  /\ ops = 0
  /\ saves = <<>>
  /\ calls = NoCalls
  /\ console = <<>>

NextPure ==
  \/ CallHasAudioHeader
  \/ \E r \in Rates, c \in Chans : CallAddWavHeader(r, c)

SpecPure == InitPure /\ [][NextPure]_vars

----------------------------------------------------------------------------
(* playAudioData on runs of raw PCM samples *)

NextPcm ==
  \/ \E ss \in PcmSampleSeqs, r \in PlayRates :
       PlayAudioData(1, btoa(SamplesBytes(ss)), r)
  \/ DecodeAudioDataResolves(1)
  \/ DecodeAudioDataRejects(1)
  \/ PlaybackEnds(1)

SpecPcm == InitPlay /\ [][NextPcm]_vars

----------------------------------------------------------------------------
(* App: the history of clicked words                                         *)
(*                                                                           *)
(* app.history is the history state, app.wordHistory the localStorage item   *)
(* 'wordHistory' that the persist effect writes after every change of        *)
(* history, app.requests[id] the generateWordDetails calls for id that have  *)
(* not settled, each given as the story of the word it was called with.  A   *)
(* handler reads the history of the last render; every setHistory below is   *)
(* rendered before the next event is handled.                                *)

\* history.find(w => w.id === id): the position of the entry, 0 for undefined
RECURSIVE FindFrom(_, _, _)
FindFrom(h, id, i) ==
  IF i > Len(h) THEN 0
  ELSE IF h[i].id = id THEN i
  ELSE FindFrom(h, id, i + 1)

Find(h, id) == FindFrom(h, id, 1)

\* { ...w, ...updates }
Spread(w, updates) ==
  [k \in DOMAIN w |-> IF k \in DOMAIN updates THEN updates[k] ELSE w[k]]

\* prev.map(w => w.id === id ? { ...w, ...updates } : w)
MapEntry(h, id, updates) ==
  [i \in 1..Len(h) |-> IF h[i].id = id THEN Spread(h[i], updates) ELSE h[i]]

\* the history state is set and the persist effect stores it
SetHistory(a, h) == [a EXCEPT !.history = h, !.wordHistory = h]

\* the word the click is about: the history entry, else the current word
TargetWord(id) ==
  IF Find(app.history, id) # 0 THEN app.history[Find(app.history, id)]
  ELSE FreshWord(id)

\* needsDetails of handleCardClick
NeedsDetails(id) ==
  (TargetWord(id).story = NoStory \/ TargetWord(id).imageUrl = NoImage)
    /\ app.isOnline

\* faulty variant: a click on a current word appends it without looking for
\* its id in history
HandleCardClickAppends(id) ==
  /\ Find(app.history, id) # 0 \/ id \in app.currentWords
  /\ IF Find(app.history, id) # 0 /\ app.history[Find(app.history, id)].isLoadingDetails
     THEN app' = [app EXCEPT !.selectedWordId = id]
     ELSE LET needs == NeedsDetails(id)
              LoadingSet == [isLoadingDetails |-> TRUE]
              h == IF id \in app.currentWords /\ Len(app.history) <= Cardinality(WordIds)
                   THEN Append(app.history,
                               [TargetWord(id) EXCEPT !.isLoadingDetails = needs])
                   ELSE IF needs THEN MapEntry(app.history, id, LoadingSet)
                   ELSE app.history
          IN app' = [SetHistory(app, h) EXCEPT
                       !.selectedWordId = id,
                       !.requests[id] = IF needs THEN Append(@, TargetWord(id).story) ELSE @]
  /\ UNCHANGED <<bytes, payload, valid, op, args, out, tag, outcome, wraps,
                 frames, links, ops, urls, saves, calls, console, modal, heap, details, gen, busy>>

\* handleCardClick(id) up to its await: the guard, the functional setHistory,
\* setSelectedWordId, and the generateWordDetails call when needsDetails
HandleCardClick(id) ==
  /\ Find(app.history, id) # 0 \/ id \in app.currentWords
  /\ IF Find(app.history, id) # 0 /\ app.history[Find(app.history, id)].isLoadingDetails
     THEN app' = [app EXCEPT !.selectedWordId = id]
     ELSE LET needs == NeedsDetails(id)
              LoadingSet == [isLoadingDetails |-> TRUE]
              h == IF Find(app.history, id) # 0
                   THEN IF needs THEN MapEntry(app.history, id, LoadingSet)
                        ELSE app.history
                   ELSE Append(app.history,
                               [TargetWord(id) EXCEPT !.isLoadingDetails = needs])
          IN app' = [SetHistory(app, h) EXCEPT
                       !.selectedWordId = id,
                       !.requests[id] = IF needs THEN Append(@, TargetWord(id).story) ELSE @]
  /\ UNCHANGED <<bytes, payload, valid, op, args, out, tag, outcome, wraps,
                 frames, links, ops, urls, saves, calls, console, modal, heap, details, gen, busy>>

\* generateWordDetails resolves with d: story, imageUrl and the flag of the
\* entry are set
DetailsResolve(id, d) ==
  /\ app.requests[id] # <<>>
  /\ LET Filled == [story |-> d.story, imageUrl |-> d.imageBase64,
                     isLoadingDetails |-> FALSE]
     IN app' = [SetHistory(app, MapEntry(app.history, id, Filled)) EXCEPT
                  !.requests[id] = Tail(@)]
  /\ UNCHANGED <<bytes, payload, valid, op, args, out, tag, outcome, wraps,
                 frames, links, ops, urls, saves, calls, console, modal, heap, details, gen, busy>>

\* generateWordDetails rejects: the catch clears the flag and writes the
\* failure text unless the entry has a story
DetailsReject(id) ==
  /\ app.requests[id] # <<>>
  /\ LET Failed(w) == [isLoadingDetails |-> FALSE,
                        story |-> IF w.story # NoStory THEN w.story
                                  ELSE StoryFailedRetry]
         h == [i \in 1..Len(app.history) |->
                 IF app.history[i].id = id
                 THEN Spread(app.history[i], Failed(app.history[i]))
                 ELSE app.history[i]]
     IN app' = [SetHistory(app, h) EXCEPT
                  !.requests[id] = Tail(@)]
  /\ UNCHANGED <<bytes, payload, valid, op, args, out, tag, outcome, wraps,
                 frames, links, ops, urls, saves, calls, console, modal, heap, details, gen, busy>>

\* handleStoryBlur in the modal of the selected word: the edited text differs
\* from wordData.story, so onUpdateWord(id, {story}) runs handleUpdateWord
HandleUpdateWord(id, story) ==
  /\ app.selectedWordId = id
  /\ Find(app.history, id) # 0
  /\ story # app.history[Find(app.history, id)].story
  /\ LET Updated == [story |-> story]
     IN app' = SetHistory(app, MapEntry(app.history, id, Updated))
  /\ UNCHANGED <<bytes, payload, valid, op, args, out, tag, outcome, wraps,
                 frames, links, ops, urls, saves, calls, console, modal, heap, details, gen, busy>>

\* onClose of the modal
HandleClose ==
  /\ app.selectedWordId # NoWord
  /\ app' = [app EXCEPT !.selectedWordId = NoWord]
  /\ UNCHANGED <<bytes, payload, valid, op, args, out, tag, outcome, wraps,
                 frames, links, ops, urls, saves, calls, console, modal, heap, details, gen, busy>>

\* the online / offline events
SetIsOnline(b) ==
  /\ app.isOnline # b
  /\ app' = [app EXCEPT !.isOnline = b]
  /\ UNCHANGED <<bytes, payload, valid, op, args, out, tag, outcome, wraps,
                 frames, links, ops, urls, saves, calls, console, modal, heap, details, gen, busy>>

\* setCurrentWords(newWords): a generation settled with words of the ids ws;
\* generateId draws them at random, so an id may be one history already holds
SetCurrentWords(ws) ==
  /\ app.isOnline
  /\ ws # app.currentWords
  /\ app' = [app EXCEPT !.currentWords = ws]
  /\ UNCHANGED <<bytes, payload, valid, op, args, out, tag, outcome, wraps,
                 frames, links, ops, urls, saves, calls, console, modal, heap, details, gen, busy>>

\* the page is loaded again: history is read from localStorage, every other
\* state starts afresh, and the requests of the old page are gone
Reload ==
  /\ app' = [NoApp EXCEPT !.history = app.wordHistory,
                          !.wordHistory = app.wordHistory,
                          !.isOnline = app.isOnline]
  /\ UNCHANGED <<bytes, payload, valid, op, args, out, tag, outcome, wraps,
                 frames, links, ops, urls, saves, calls, console, modal, heap, details, gen, busy>>

InitHistory ==
  /\ app = NoApp
  /\ details = NoDetails
  /\ gen = NoGen
  /\ busy = NoBusy
  /\ heap = NoHeap
  /\ modal = NoModal
  /\ urls = <<>>
  /\ bytes = <<>>
  /\ payload = <<>>
  /\ valid = FALSE
  /\ op = "init"
  /\ args = <<0, 0>>
  /\ out = <<>>
  /\ tag = "none"
  /\ outcome = "none"
  /\ wraps = 0
  /\ frames = 0
  /\ links = 0
  /\ ops = 0
  /\ saves = <<>>
  /\ calls = NoCalls
  /\ console = <<>>

NextHistory ==
  \/ \E id \in WordIds : HandleCardClick(id)
  \/ \E id \in WordIds, d \in Details : DetailsResolve(id, d)
  \/ \E id \in WordIds : DetailsReject(id)
  \/ \E id \in WordIds : HandleUpdateWord(id, StoryEdited)
  \/ HandleClose
  \/ \E b \in BOOLEAN : SetIsOnline(b)
  \/ \E ws \in (SUBSET WordIds) \ {{}} : SetCurrentWords(ws)
  \/ Reload

SpecHistory == InitHistory /\ [][NextHistory]_vars

----------------------------------------------------------------------------
(* generateWordDetails                                                       *)
(*                                                                           *)
(* details.story and details.image are storyPromise and imagePromise, and    *)
(* details.pc is "awaiting" from the call to the settling of both,           *)
(* "resolved" or "rejected" once the promise of the call has settled.  The   *)
(* code after the await runs when the second of the two promises settles.    *)

\* the loop over the parts: the data of the first part with inlineData, ""
\* when there is none
RECURSIVE FirstInlineData(_)
FirstInlineData(parts) ==
  IF parts = <<>> THEN ""
  ELSE IF Head(parts).inlineData THEN Head(parts).data
  ELSE FirstInlineData(Tail(parts))

\* faulty variant: the two promises are awaited with Promise.all, so a
\* rejection of either rejects the call
AfterAll(d) ==
  IF d.story.status = "pending" \/ d.image.status = "pending" THEN d
  ELSE IF d.story.status = "rejected" \/ d.image.status = "rejected"
  THEN [d EXCEPT !.pc = "rejected"]
  ELSE [d EXCEPT
          !.pc = "resolved",
          !.result = [story |-> d.story.value,
                      imageBase64 |-> IF d.image.value.candidates
                                      THEN FirstInlineData(d.image.value.parts)
                                      ELSE ""]]

\* the code after await Promise.allSettled([storyPromise, imagePromise])
AfterAllSettled(d) ==
  IF d.story.status = "pending" \/ d.image.status = "pending" THEN d
  ELSE [d EXCEPT
          !.pc = "resolved",
          !.result = [story |-> IF d.story.status = "fulfilled"
                                THEN d.story.value
                                ELSE StoryFailed,
                      imageBase64 |-> IF d.image.status = "fulfilled"
                                         /\ d.image.value.candidates
                                      THEN FirstInlineData(d.image.value.parts)
                                      ELSE ""]]

\* generateWordDetails(wordData, settings) up to its await: both requests
\* are started
GenerateWordDetails(useLocal) ==
  /\ details.pc # "awaiting"
  /\ details' = [NoDetails EXCEPT !.pc = "awaiting", !.useLocal = useLocal]
  /\ UNCHANGED <<bytes, payload, valid, op, args, out, tag, outcome, wraps,
                 frames, links, ops, urls, saves, calls, console, modal, heap,
                 app, gen, busy>>

\* the story backend answers with text: generateLocalText returns
\* content || "", the Gemini branch res.text || "Could not generate story."
StoryFulfils(text) ==
  /\ details.pc = "awaiting"
  /\ details.story = Pending
  /\ LET value == IF details.useLocal \/ text # "" THEN text ELSE StoryNotGenerated
     IN details' = AfterAllSettled([details EXCEPT !.story = Fulfilled(value)])
  /\ UNCHANGED <<bytes, payload, valid, op, args, out, tag, outcome, wraps,
                 frames, links, ops, urls, saves, calls, console, modal, heap,
                 app, gen, busy>>

\* the story request fails (network error, response not ok, API error)
StoryRejects ==
  /\ details.pc = "awaiting"
  /\ details.story = Pending
  /\ details' = AfterAllSettled([details EXCEPT !.story = Rejected])
  /\ UNCHANGED <<bytes, payload, valid, op, args, out, tag, outcome, wraps,
                 frames, links, ops, urls, saves, calls, console, modal, heap,
                 app, gen, busy>>

\* the image request answers with a response
ImageFulfils(res) ==
  /\ details.pc = "awaiting"
  /\ details.image = Pending
  /\ details' = AfterAllSettled([details EXCEPT !.image = Fulfilled(res)])
  /\ UNCHANGED <<bytes, payload, valid, op, args, out, tag, outcome, wraps,
                 frames, links, ops, urls, saves, calls, console, modal, heap,
                 app, gen, busy>>

\* the image request fails
ImageRejects ==
  /\ details.pc = "awaiting"
  /\ details.image = Pending
  /\ details' = AfterAllSettled([details EXCEPT !.image = Rejected])
  /\ UNCHANGED <<bytes, payload, valid, op, args, out, tag, outcome, wraps,
                 frames, links, ops, urls, saves, calls, console, modal, heap,
                 app, gen, busy>>

InitDetails ==
  /\ details = NoDetails
  /\ gen = NoGen
  /\ busy = NoBusy
  /\ app = NoApp
  /\ heap = NoHeap
  /\ modal = NoModal
  /\ urls = <<>>
  /\ bytes = <<>>
  /\ payload = <<>>
  /\ valid = FALSE
  /\ op = "init"
  /\ args = <<0, 0>>
  /\ out = <<>>
  /\ tag = "none"
  /\ outcome = "none"
  /\ wraps = 0
  /\ frames = 0
  /\ links = 0
  /\ ops = 0
  /\ saves = <<>>
  /\ calls = NoCalls
  /\ console = <<>>

NextDetails ==
  \/ \E useLocal \in BOOLEAN : GenerateWordDetails(useLocal)
  \/ \E text \in StoryTexts : StoryFulfils(text)
  \/ StoryRejects
  \/ \E res \in ImageResponses : ImageFulfils(res)
  \/ ImageRejects

SpecDetails == InitDetails /\ [][NextDetails]_vars

----------------------------------------------------------------------------
(* App: word generation                                                      *)
(*                                                                           *)
(* gen.state holds the values the state setters have set, gen.view the       *)
(* values of the last committed render, which are the ones the handlers of   *)
(* that render close over.  An update made in a click or submit handler is   *)
(* rendered before the next event; an update made in an effect, in an        *)
(* online / offline listener or after an await is rendered by a later task   *)
(* (Render).  gen.requests counts the generateWords, generateWordsByRoot and *)
(* generateSingleWord calls that have not settled.                           *)

\* the guard and the first statements of handleGenerate, handleRootSelect
\* and handleSearch, run with the closure of the committed render: return
\* when loading, alert and return when offline, else setLoading(true) and
\* the request
Invoke(g, handler) ==
  IF g.view.loading THEN [g EXCEPT !.last = <<handler, "returned">>]
  ELSE IF ~g.view.isOnline THEN [g EXCEPT !.last = <<handler, "offline">>]
  ELSE [g EXCEPT !.state.loading = TRUE,
                 !.requests = @ + 1,
                 !.last = <<handler, "requested">>]

\* a render is committed and its effects run: the effect with the
\* dependency [isOnline] runs on mount and when isOnline has changed, and
\* calls handleGenerate when currentWords is empty, not loading, and online
Commit(g) ==
  LET v == g.state
      ran == ~g.mounted \/ v.isOnline # g.view.isOnline
      rendered == [g EXCEPT !.view = v, !.mounted = TRUE]
  IN IF ran /\ ~v.words /\ ~v.loading /\ v.isOnline
     THEN Invoke(rendered, "effect")
     ELSE rendered

\* a handler may start a request
Free(g) == g.requests < MaxRequests

\* the App is mounted; isOnline starts as navigator.onLine
Mount(online) ==
  /\ ~gen.mounted
  /\ gen' = Commit([gen EXCEPT !.state = Unloaded(online), !.view = Unloaded(online)])
  /\ UNCHANGED <<bytes, payload, valid, op, args, out, tag, outcome, wraps,
                 frames, links, ops, urls, saves, calls, console, modal, heap,
                 app, details, busy>>

\* a render scheduled by an update outside a click or submit handler
Render ==
  /\ gen.mounted
  /\ gen.state # gen.view
  /\ Free(gen)
  /\ gen' = Commit(gen)
  /\ UNCHANGED <<bytes, payload, valid, op, args, out, tag, outcome, wraps,
                 frames, links, ops, urls, saves, calls, console, modal, heap,
                 app, details, busy>>

\* the Generate buttons
HandleGenerate ==
  /\ gen.mounted
  /\ Free(gen)
  /\ gen' = Commit(Invoke(gen, "handleGenerate"))
  /\ UNCHANGED <<bytes, payload, valid, op, args, out, tag, outcome, wraps,
                 frames, links, ops, urls, saves, calls, console, modal, heap,
                 app, details, busy>>

\* a root chosen in the sidebar
HandleRootSelect ==
  /\ gen.mounted
  /\ Free(gen)
  /\ gen' = Commit(Invoke(gen, "handleRootSelect"))
  /\ UNCHANGED <<bytes, payload, valid, op, args, out, tag, outcome, wraps,
                 frames, links, ops, urls, saves, calls, console, modal, heap,
                 app, details, busy>>

\* a root clicked on a word card: the root is added to the list when it is
\* new, then handleRootSelect is called
HandleRootClickFromCard ==
  /\ gen.mounted
  /\ gen.view.words
  /\ Free(gen)
  /\ gen' = Commit(Invoke(gen, "handleRootClickFromCard"))
  /\ UNCHANGED <<bytes, payload, valid, op, args, out, tag, outcome, wraps,
                 frames, links, ops, urls, saves, calls, console, modal, heap,
                 app, details, busy>>

\* the search form is submitted with searchQuery = query
HandleSearch(query) ==
  /\ gen.mounted
  /\ Free(gen)
  /\ gen' = Commit(IF query = " "
                   THEN [gen EXCEPT !.last = <<"handleSearch", "returned">>]
                   ELSE Invoke(gen, "handleSearch"))
  /\ UNCHANGED <<bytes, payload, valid, op, args, out, tag, outcome, wraps,
                 frames, links, ops, urls, saves, calls, console, modal, heap,
                 app, details, busy>>

\* the online event
HandleOnline ==
  /\ gen.mounted
  /\ ~gen.state.isOnline
  /\ gen' = [gen EXCEPT !.state.isOnline = TRUE]
  /\ UNCHANGED <<bytes, payload, valid, op, args, out, tag, outcome, wraps,
                 frames, links, ops, urls, saves, calls, console, modal, heap,
                 app, details, busy>>

\* the offline event
HandleOffline ==
  /\ gen.mounted
  /\ gen.state.isOnline
  /\ gen' = [gen EXCEPT !.state.isOnline = FALSE]
  /\ UNCHANGED <<bytes, payload, valid, op, args, out, tag, outcome, wraps,
                 frames, links, ops, urls, saves, calls, console, modal, heap,
                 app, details, busy>>

\* a request settles: setCurrentWords on success, the alert on failure, and
\* setLoading(false) in the finally on both
RequestSettles(ok) ==
  /\ gen.requests > 0
  /\ gen' = [gen EXCEPT !.requests = @ - 1,
                        !.state.loading = FALSE,
                        !.state.words = IF ok THEN TRUE ELSE @]
  /\ UNCHANGED <<bytes, payload, valid, op, args, out, tag, outcome, wraps,
                 frames, links, ops, urls, saves, calls, console, modal, heap,
                 app, details, busy>>

InitGenerate ==
  /\ gen = NoGen
  /\ busy = NoBusy
  /\ details = NoDetails
  /\ app = NoApp
  /\ heap = NoHeap
  /\ modal = NoModal
  /\ urls = <<>>
  /\ bytes = <<>>
  /\ payload = <<>>
  /\ valid = FALSE
  /\ op = "init"
  /\ args = <<0, 0>>
  /\ out = <<>>
  /\ tag = "none"
  /\ outcome = "none"
  /\ wraps = 0
  /\ frames = 0
  /\ links = 0
  /\ ops = 0
  /\ saves = <<>>
  /\ calls = NoCalls
  /\ console = <<>>

NextGenerate ==
  \/ \E online \in BOOLEAN : Mount(online)
  \/ Render
  \/ HandleGenerate
  \/ HandleRootSelect
  \/ HandleRootClickFromCard
  \/ \E query \in Queries : HandleSearch(query)
  \/ HandleOnline
  \/ HandleOffline
  \/ \E ok \in BOOLEAN : RequestSettles(ok)

SpecGenerate == InitGenerate /\ [][NextGenerate]_vars

----------------------------------------------------------------------------
(* The busy flags of the audio controls                                      *)
(*                                                                           *)
(* busy.ctl[c].flag is the state the control c sets, busy.ctl[c].pc the      *)
(* await its handler is suspended at ("tts": generatePronunciation, "play":  *)
(* playAudioData), busy.tts the number of generatePronunciation calls made.  *)
(* A click is handled with the flag of the last render; the setter calls of  *)
(* a click handler are rendered before the next click.                       *)

\* what playAudioData logs or starts for a payload; it resolves in each case
PlayOutcome(base64) ==
  IF base64 = "malformed" THEN "Error playing audio" ELSE "started"

\* the pronunciation the handler of c can use without a request:
\* fetchPronunciationIfNeeded returns pronunciationBase64 when it is set
Cached(c) ==
  IF c \in ModalControls THEN busy.pronunciationBase64 ELSE NoPronunciation

\* the handler has the pronunciation: handlePlayWord and playWordPronunciation
\* await playAudioData, handleDownloadPronunciation calls downloadAudio,
\* which catches what it throws, and clears its flag
WithPronunciation(b, c, base64) ==
  IF c = "isDownloadingWord"
  THEN [b EXCEPT !.ctl[c] = Idle, !.last = "downloaded"]
  ELSE [b EXCEPT !.ctl[c] = [flag |-> TRUE, pc |-> "play", payload |-> base64]]

\* faulty variant: the rejection of generatePronunciation is not caught, so
\* the handler ends before it clears its flag
TtsRejectsUncaught(c) ==
  /\ busy.ctl[c].pc = "tts"
  /\ busy' = [busy EXCEPT !.ctl[c].pc = "idle", !.last = "uncaught"]
  /\ UNCHANGED <<bytes, payload, valid, op, args, out, tag, outcome, wraps,
                 frames, links, ops, urls, saves, calls, console, modal, heap,
                 app, details, gen>>

\* handleAudioClick, handlePlayWord, handleDownloadPronunciation up to the
\* first await: the offline alert, the guard on the flag, the flag set, and
\* the pronunciation request unless the modal has the pronunciation
Click(c) ==
  /\ busy.tts < MaxTts
  /\ IF ~busy.isOnline THEN busy' = [busy EXCEPT !.last = "offline"]
     ELSE IF busy.ctl[c].flag THEN busy' = [busy EXCEPT !.last = "returned"]
     ELSE IF Cached(c) # NoPronunciation
     THEN busy' = WithPronunciation([busy EXCEPT !.last = "cached"], c, Cached(c))
     ELSE busy' = [busy EXCEPT
                     !.ctl[c] = [flag |-> TRUE, pc |-> "tts",
                                 payload |-> NoPronunciation],
                     !.tts = @ + 1,
                     !.last = "requested"]
  /\ UNCHANGED <<bytes, payload, valid, op, args, out, tag, outcome, wraps,
                 frames, links, ops, urls, saves, calls, console, modal, heap,
                 app, details, gen>>

\* generatePronunciation resolves with a payload: the modal stores it in
\* pronunciationBase64, and the handler goes on with it
TtsResolves(c, base64) ==
  /\ busy.ctl[c].pc = "tts"
  /\ busy' = WithPronunciation(
               [busy EXCEPT !.pronunciationBase64 =
                              IF c \in ModalControls THEN base64 ELSE @,
                            !.last = "fetched"],
               c, base64)
  /\ UNCHANGED <<bytes, payload, valid, op, args, out, tag, outcome, wraps,
                 frames, links, ops, urls, saves, calls, console, modal, heap,
                 app, details, gen>>

\* generatePronunciation rejects: playWordPronunciation logs it,
\* fetchPronunciationIfNeeded logs it and returns null; the handler clears
\* its flag
TtsRejects(c) ==
  /\ busy.ctl[c].pc = "tts"
  /\ busy' = [busy EXCEPT !.ctl[c] = Idle, !.last = "TTS failed"]
  /\ UNCHANGED <<bytes, payload, valid, op, args, out, tag, outcome, wraps,
                 frames, links, ops, urls, saves, calls, console, modal, heap,
                 app, details, gen>>

\* playAudioData resolves, having started playback or logged its error;
\* the handler clears its flag
PlaySettles(c) ==
  /\ busy.ctl[c].pc = "play"
  /\ busy' = [busy EXCEPT !.ctl[c] = Idle,
                          !.last = PlayOutcome(busy.ctl[c].payload)]
  /\ UNCHANGED <<bytes, payload, valid, op, args, out, tag, outcome, wraps,
                 frames, links, ops, urls, saves, calls, console, modal, heap,
                 app, details, gen>>

\* the online and offline events, as the isOnline prop of the controls
BusyOnline(b) ==
  /\ busy.isOnline # b
  /\ busy' = [busy EXCEPT !.isOnline = b]
  /\ UNCHANGED <<bytes, payload, valid, op, args, out, tag, outcome, wraps,
                 frames, links, ops, urls, saves, calls, console, modal, heap,
                 app, details, gen>>

InitBusy ==
  /\ busy = NoBusy
  /\ gen = NoGen
  /\ details = NoDetails
  /\ app = NoApp
  /\ heap = NoHeap
  /\ modal = NoModal
  /\ urls = <<>>
  /\ bytes = <<>>
  /\ payload = <<>>
  /\ valid = FALSE
  /\ op = "init"
  /\ args = <<0, 0>>
  /\ out = <<>>
  /\ tag = "none"
  /\ outcome = "none"
  /\ wraps = 0
  /\ frames = 0
  /\ links = 0
  /\ ops = 0
  /\ saves = <<>>
  /\ calls = NoCalls
  /\ console = <<>>

NextBusy ==
  \/ \E c \in Controls : Click(c)
  \/ \E c \in Controls, p \in Pronunciations : TtsResolves(c, p)
  \/ \E c \in Controls : TtsRejects(c)
  \/ \E c \in Controls : PlaySettles(c)
  \/ \E b \in BOOLEAN : BusyOnline(b)

\* every request and every playAudioData call that is pending settles
BusyFairness ==
  \A c \in Controls :
    /\ WF_vars(TtsRejects(c) \/ \E p \in Pronunciations : TtsResolves(c, p))
    /\ WF_vars(PlaySettles(c))

SpecBusy == InitBusy /\ [][NextBusy]_vars

SpecBusyFair == SpecBusy /\ BusyFairness

----------------------------------------------------------------------------
(* Readers used to state the properties *)

\* little-endian u16 / u32 at byte offset off
U16(b, off) == b[off + 1] + 256 * b[off + 2]
U32(b, off) == b[off + 1] + 256 * b[off + 2] + 65536 * b[off + 3] + 16777216 * b[off + 4]

StartsWith(b, sig) == Len(b) >= Len(sig) /\ SubSeq(b, 1, Len(sig)) = sig

LastUrl == urls[Len(urls)]
LastSave == saves[Len(saves)]

----------------------------------------------------------------------------
(* Properties of the classifier and the framer *)

\* C1: addWavHeader on N bytes, rate R, channels C returns 44 + N bytes whose
\* bytes 4-7 decode to 36 + N, bytes 24-27 to R, bytes 40-43 to N, and whose
\* bytes from offset 44 on are the N input bytes in order.
C1_FramingRoundTrip ==
  op = "addWavHeader" =>
    /\ Len(out) = 44 + Len(bytes)
    /\ U32(out, 4) = 36 + Len(bytes)
    /\ U32(out, 24) = args[1]
    /\ U32(out, 40) = Len(bytes)
    /\ SubSeq(out, 45, Len(out)) = bytes

C1_Witness ==
  /\ op = "addWavHeader"
  /\ bytes = ScenarioA
  /\ args = <<48000, 2>>
  /\ Len(out) = 52

\* C2: downloadAudio on a payload whose decoded bytes are classified
\* ContainerFile (for instance bytes starting with "RIFF") saves exactly the
\* decoded bytes, of the same length, and does not call the framer.
C2_NoDoubleWrapOnDownload ==
  (op = "downloadAudio" /\ valid
     /\ (hasAudioHeader(bytes) \/ (StartsWith(bytes, StrRIFF) /\ Len(bytes) >= 4))) =>
    /\ outcome = "returned"
    /\ Len(saves) > 0
    /\ LastSave.blob = bytes
    /\ Len(LastSave.blob) = Len(bytes)
    /\ frames = wraps

C2_Witness ==
  /\ op = "downloadAudio"
  /\ bytes = MinimalWav
  /\ Len(saves) > 0
  /\ LastSave.blob = MinimalWav

\* the buffer starts with one of the four signatures
Signature(b) ==
  \/ StartsWith(b, <<82, 73, 70, 70>>)
  \/ StartsWith(b, <<73, 68, 51>>)
  \/ StartsWith(b, <<79, 103, 103, 83>>)
  \/ (Len(b) >= 2 /\ b[1] = 255 /\ b[2] >= 224)

\* C3: a buffer of length >= 4 is classified ContainerFile iff it starts with
\* RIFF, ID3, OggS or has byte0 = FF and the three top bits of byte1 set;
\* every other such buffer is RawPCM, and the classification raises no error.
C3_ClassifierCharacterisation ==
  (op = "hasAudioHeader" /\ Len(bytes) >= 4) =>
    /\ outcome = "returned"
    /\ tag \in {"ContainerFile", "RawPCM"}
    /\ (tag = "ContainerFile") <=> Signature(bytes)

C3_Witness ==
  /\ op = "hasAudioHeader"
  /\ bytes = <<255, 251, 0, 0>>
  /\ tag = "ContainerFile"

\* C4: every buffer of length 0..3 is classified RawPCM, also when its bytes
\* are a signature or a prefix of one.
C4_ShortBuffersAreRawPCM ==
  (op = "hasAudioHeader" /\ Len(bytes) < 4) => tag = "RawPCM"

C4_Witness ==
  /\ op = "hasAudioHeader"
  /\ bytes = <<73, 68, 51>>
  /\ tag = "RawPCM"

\* C5: for a validly encoded payload, the blob createAudioUrl registers is
\* addWavHeader(bytes, 24000, 1) when the decoded bytes are RawPCM (8 PCM
\* bytes give 52 bytes stating rate 24000 and data length 8) and the decoded
\* bytes themselves when they are ContainerFile.
C5_CreateAudioUrlBlob ==
  (op = "createAudioUrl" /\ valid) =>
    /\ outcome = "returned"
    /\ Len(urls) > 0
    /\ LastUrl.live
    /\ LastUrl.blob = out
    /\ Signature(bytes) /\ Len(bytes) >= 4 => out = bytes
    /\ ~(Signature(bytes) /\ Len(bytes) >= 4) =>
         /\ out = addWavHeader(bytes, 24000, 1)
         /\ Len(out) = 44 + Len(bytes)
         /\ U32(out, 24) = 24000
         /\ U16(out, 22) = 1
         /\ U32(out, 40) = Len(bytes)
         /\ SubSeq(out, 45, Len(out)) = bytes

C5_Witness ==
  /\ op = "createAudioUrl"
  /\ bytes = ScenarioA
  /\ Len(out) = 52
  /\ U32(out, 24) = 24000
  /\ U32(out, 40) = 8

\* C6: downloadAudio on a payload whose decoded bytes are RawPCM saves exactly
\* addWavHeader(bytes, 24000, 1): a mono 24000 Hz container of 44 + N bytes.
C6_DownloadWrapsRawPCM ==
  (op = "downloadAudio" /\ valid /\ ~(Signature(bytes) /\ Len(bytes) >= 4)) =>
    /\ outcome = "returned"
    /\ Len(saves) > 0
    /\ LastSave.blob = addWavHeader(bytes, 24000, 1)
    /\ Len(LastSave.blob) = 44 + Len(bytes)
    /\ U32(LastSave.blob, 24) = 24000
    /\ U16(LastSave.blob, 22) = 1
    /\ SubSeq(LastSave.blob, 45, 44 + Len(bytes)) = bytes

C6_Witness ==
  /\ op = "downloadAudio"
  /\ bytes = <<0, 1, 2>>
  /\ Len(saves) > 0
  /\ Len(LastSave.blob) = 47

\* C7: the output of addWavHeader is classified ContainerFile for every
\* input, rate and channel count; materializing bytes that already went
\* through the framer returns them unchanged, so no bytes are framed twice
\* along a chain of materializations.
C7_ClassifierGatesReframing ==
  /\ op = "addWavHeader" => hasAudioHeader(out)
  /\ frames <= 1
  /\ (op \in {"createAudioUrl", "downloadAudio"} /\ wraps >= 1) =>
       /\ outcome = "returned"
       /\ out = bytes
       /\ frames = wraps

C7_Witness ==
  /\ op \in {"createAudioUrl", "downloadAudio"}
  /\ links = 2
  /\ wraps = 1
  /\ frames = 1
  /\ out = bytes

----------------------------------------------------------------------------
(* Properties of playAudioData *)

CallIds == 1..MaxCalls

\* C8: a call whose payload decodes has had decodeAudioData called on its
\* bytes, whatever hasAudioHeader says of them; the manual PCM path has run
\* iff that decode failed, it has not run when the decode succeeded, and a
\* call starts at most one playback.
C8_DecoderFirstThenPcm ==
  \A c \in CallIds :
    /\ (calls[c].pc # "idle" /\ ~decodeBase64(calls[c].base64Audio).threw) =>
         calls[c].decode \in {"pending", "ok", "fail"}
    /\ calls[c].pcm <=> calls[c].decode = "fail"
    /\ calls[c].decode = "ok" => ~calls[c].pcm
    /\ calls[c].started <= 1
    /\ calls[c].started = 1 => calls[c].decode \in {"ok", "fail"}

C8_Witness ==
  \E c, e \in CallIds :
    /\ ~hasAudioHeader(calls[c].bytes)
    /\ calls[c].decode = "ok" /\ ~calls[c].pcm /\ calls[c].started = 1
    /\ hasAudioHeader(calls[e].bytes)
    /\ calls[e].decode = "fail" /\ calls[e].pcm /\ calls[e].started = 1

\* C9: the promise of a playAudioData call never rejects; once the call is
\* over it is resolved, whatever the payload and whatever the decoder and
\* the manual PCM path did.
C9_PlayNeverRejects ==
  \A c \in CallIds :
    /\ calls[c].result # "rejected"
    /\ calls[c].pc = "done" => calls[c].result = "resolved"

C9_Witness ==
  \E c, e \in CallIds :
    /\ calls[c].pc = "done" /\ calls[c].decode = "fail" /\ calls[c].started = 0
    /\ calls[c].result = "resolved"
    /\ calls[e].pc = "done" /\ calls[e].decode = "none"
    /\ calls[e].result = "resolved"
    /\ Len(console) = 2

\* the call played its bytes through the manual PCM path: one buffer of one
\* channel and N / 2 samples at the call's sample rate, started, promise resolved
FallbackPlayed(c) ==
  /\ calls[c].pcm
  /\ calls[c].started = 1
  /\ calls[c].buffer.numberOfChannels = 1
  /\ calls[c].buffer.length * 2 = Len(calls[c].bytes)
  /\ Len(calls[c].buffer.channelData) = calls[c].buffer.length
  /\ calls[c].buffer.sampleRate =
       (IF calls[c].rateArg = Omitted THEN 24000 ELSE calls[c].rateArg)
  /\ calls[c].result = "resolved"

\* C10 as stated: when the decode fails and the payload has an even number
\* of bytes N, a single-channel buffer of N / 2 samples at the given rate is
\* built and played, and the call resolves.
C10_FallbackPlaysEvenLength ==
  \A c \in CallIds :
    (calls[c].decode = "fail" /\ Len(calls[c].bytes) % 2 = 0) => FallbackPlayed(c)

\* C10 amended: the same, for an even N of at least 2.
C10_FallbackPlaysEvenNonEmpty ==
  \A c \in CallIds :
    (calls[c].decode = "fail" /\ Len(calls[c].bytes) % 2 = 0
       /\ Len(calls[c].bytes) >= 2) => FallbackPlayed(c)

C10_Witness ==
  \E c \in CallIds :
    /\ calls[c].decode = "fail"
    /\ calls[c].bytes = ScenarioA
    /\ calls[c].rateArg = 48000
    /\ calls[c].buffer.length = 4
    /\ calls[c].buffer.sampleRate = 48000
    /\ calls[c].started = 1

\* the calls that ended in the outer catch
CaughtCalls == {c \in CallIds : calls[c].pc = "done" /\ calls[c].started = 0}

\* C11: when the decode fails and the manual PCM interpretation throws (an
\* odd number of bytes, or no bytes at all), the call starts no playback,
\* logs one error and resolves.
C11_TerminalPayloadFailure ==
  /\ \A c \in CallIds :
       (calls[c].decode = "fail"
          /\ (Len(calls[c].bytes) % 2 = 1 \/ Len(calls[c].bytes) = 0)) =>
         /\ calls[c].started = 0
         /\ ~calls[c].playing
         /\ calls[c].buffer = NoBuffer
         /\ calls[c].result = "resolved"
         /\ c \in CaughtCalls
  /\ Len(console) = Cardinality(CaughtCalls)
  /\ \A i \in 1..Len(console) : console[i] = "Error playing audio"

C11_Witness ==
  \E c \in CallIds :
    /\ calls[c].decode = "fail"
    /\ calls[c].bytes = <<0, 1, 2>>
    /\ calls[c].started = 0
    /\ calls[c].result = "resolved"
    /\ Len(console) = 1

----------------------------------------------------------------------------
(* Properties of the base64 step *)

\* C12 as stated: a payload that is not valid base64 makes each of the three
\* operations fail towards its caller (a thrown error or a rejected promise).
C12_MalformedSurfacesEverywhere ==
  payload \in Malformed =>
    /\ op = "createAudioUrl" => outcome = "threw"
    /\ op = "downloadAudio" => outcome = "threw"
    /\ calls[1].pc = "done" => calls[1].result = "rejected"

\* C12 amended: on a payload that is not valid base64 createAudioUrl throws
\* to its caller and registers no URL; downloadAudio catches the error, logs
\* it and returns without a save; playAudioData catches it, logs it and
\* resolves without a decode attempt or a playback.
C12_MalformedSurfacesFromCreateOnly ==
  payload \in Malformed =>
    /\ op = "createAudioUrl" => (outcome = "threw" /\ urls = <<>>)
    /\ op = "downloadAudio" =>
         /\ outcome = "caught"
         /\ saves = <<>>
         /\ urls = <<>>
         /\ console = <<"Error downloading audio">>
    /\ calls[1].pc # "idle" =>
         /\ calls[1].pc = "done"
         /\ calls[1].result = "resolved"
         /\ calls[1].decode = "none"
         /\ calls[1].started = 0
         /\ console = <<"Error playing audio">>

C12_Witness ==
  /\ payload = <<20, BadChar, 20, 20>>
  /\ op = "downloadAudio"
  /\ outcome = "caught"
  /\ saves = <<>>

----------------------------------------------------------------------------
(* Properties of the audio context of a playAudioData call *)

\* C13: on the decoder path and on the manual PCM path the context the call
\* created is closed by the step that ends the call's playback, is closed
\* once, and is open for as long as the playback runs.
C13_ContextClosedOnEnded ==
  /\ [](\A c \in CallIds :
          /\ calls[c].closes <= 1
          /\ calls[c].context = "closed" <=> calls[c].closes = 1
          /\ calls[c].playing => calls[c].context = "open"
          /\ (calls[c].started = 1 /\ ~calls[c].playing) =>
               calls[c].context = "closed")
  /\ [][\A c \in CallIds :
          calls'[c].closes # calls[c].closes =>
            /\ calls[c].playing /\ ~calls'[c].playing
            /\ calls[c].context = "open" /\ calls'[c].context = "closed"
            /\ calls'[c].closes = calls[c].closes + 1]_vars

C13_Witness ==
  \E c, e \in CallIds :
    /\ calls[c].decode = "ok" /\ ~calls[c].pcm
    /\ calls[c].context = "closed" /\ calls[c].closes = 1
    /\ calls[e].decode = "fail" /\ calls[e].pcm
    /\ calls[e].context = "closed" /\ calls[e].closes = 1

\* C14: the promise of a call that plays is resolved by the step that starts
\* the playback, while the playback runs and the context is open; it is
\* resolved before the ended event and before the context is closed, and a
\* call that has begun is pending only while decodeAudioData is.
C14_ResolvesWhenPlaybackStarts ==
  /\ [](\A c \in CallIds :
          /\ calls[c].playing => calls[c].result = "resolved"
          /\ calls[c].context = "closed" => calls[c].result = "resolved"
          /\ (calls[c].pc # "idle" /\ calls[c].result = "pending") =>
               (calls[c].pc = "awaitDecode" /\ calls[c].decode = "pending"))
  /\ [][\A c \in CallIds :
          /\ (calls[c].started = 0 /\ calls'[c].started = 1) =>
               /\ calls[c].result = "pending"
               /\ calls'[c].result = "resolved"
               /\ calls'[c].playing
               /\ calls'[c].context = "open"
          /\ (calls[c].playing /\ ~calls'[c].playing) =>
               calls[c].result = "resolved"]_vars

C14_Witness ==
  \E c, e \in CallIds :
    /\ calls[c].decode = "ok" /\ calls[c].result = "resolved"
    /\ calls[c].playing /\ calls[c].closes = 0
    /\ calls[e].decode = "fail" /\ calls[e].pcm /\ calls[e].result = "resolved"
    /\ calls[e].playing /\ calls[e].closes = 0

\* C15: every call that has begun holds a context of its own; two calls can
\* be playing on open contexts at once, and the step that closes the context
\* of one call changes nothing of any other call.
C15_CallsAreIndependent ==
  /\ [](\A c \in CallIds : calls[c].pc # "idle" => calls[c].context # "none")
  /\ [][\A c, d \in CallIds :
          (c # d /\ calls'[c].context = "closed" /\ calls[c].context = "open")
            => calls'[d] = calls[d]]_vars
  /\ [][\A c, d \in CallIds :
          (c # d /\ calls[c].pc = "idle" /\ calls'[c].pc # "idle")
            => (calls'[c].context = "open" /\ calls'[d] = calls[d])]_vars

C15_Witness ==
  \E c, d \in CallIds :
    /\ c # d
    /\ calls[c].context = "open" /\ calls[c].playing
    /\ calls[d].context = "open" /\ calls[d].playing
    /\ calls[c].bytes # calls[d].bytes

----------------------------------------------------------------------------
(* Properties of downloadAudio *)

\* C17: a downloadAudio call does not throw; when the payload decodes it
\* appends one save, under the filename it was given, and logs nothing; when
\* the payload does not decode it appends no save and logs one error.
C17_DownloadSingleShot ==
  [][/\ (ops' = ops + 1 /\ op' = "downloadAudio") =>
          /\ outcome' \in {"returned", "caught"}
          /\ IF decodeBase64(payload).threw
             THEN /\ outcome' = "caught"
                  /\ saves' = saves
                  /\ urls' = urls
                  /\ console' = Append(console, "Error downloading audio")
             ELSE /\ outcome' = "returned"
                  /\ Len(saves') = Len(saves) + 1
                  /\ SubSeq(saves', 1, Len(saves)) = saves
                  /\ saves'[Len(saves')].blob = out'
                  /\ console' = console
     /\ \A f \in Filenames :
          (DownloadAudio(f) /\ outcome' = "returned") =>
            saves'[Len(saves')].filename = f]_vars

C17_Witness ==
  /\ op = "downloadAudio"
  /\ outcome = "returned"
  /\ Len(saves) = 2
  /\ saves[1].filename = "word_pronunciation.wav"
  /\ saves[2].filename = "word_story.wav"
  /\ console = <<>>

----------------------------------------------------------------------------
(* Properties of the header fields *)

\* C18 as stated: for every sample rate R and channel count C the header
\* holds C at bytes 22-23, R * C * 2 at bytes 28-31 and C * 2 at bytes
\* 32-33, without wrap-around.
C18_DerivedFieldsAnyChannelCount ==
  op = "addWavHeader" =>
    /\ U16(out, 22) = args[2]
    /\ U32(out, 28) = args[1] * args[2] * 2
    /\ U16(out, 32) = args[2] * 2

\* C18 amended: the three fields hold C, R * C * 2 and C * 2 when C is at
\* most 32767; the 16 bit fields keep only the low 16 bits, so a larger C
\* wraps the block align, and from 65536 on the channel count as well.
C18_DerivedFieldsInRange ==
  op = "addWavHeader" =>
    /\ U32(out, 28) = args[1] * args[2] * 2
    /\ U16(out, 22) = args[2] % 65536
    /\ U16(out, 32) = (args[2] * 2) % 65536
    /\ args[2] <= 32767 =>
         (U16(out, 22) = args[2] /\ U16(out, 32) = args[2] * 2)

C18_Witness ==
  /\ op = "addWavHeader"
  /\ args = <<8000, 32767>>
  /\ U16(out, 22) = 32767
  /\ U32(out, 28) = 524272000
  /\ U16(out, 32) = 65534

\* C19: whatever the samples, the rate and the channel count, bytes 0-43 of
\* the framed output hold "RIFF" at 0, "WAVE" at 8, "fmt " at 12, 16 at
\* 16-19, 1 at 20-21, 16 at 34-35 and "data" at 36, and the samples start at
\* byte 44.
C19_ConstantFields ==
  op = "addWavHeader" =>
    /\ SubSeq(out, 1, 4) = StrRIFF
    /\ SubSeq(out, 9, 12) = StrWAVE
    /\ SubSeq(out, 13, 16) = StrFmt
    /\ U32(out, 16) = 16
    /\ U16(out, 20) = 1
    /\ U16(out, 34) = 16
    /\ SubSeq(out, 37, 40) = StrData
    /\ Len(out) - Len(bytes) = 44
    /\ SubSeq(out, 45, Len(out)) = bytes

C19_Witness ==
  /\ op = "addWavHeader"
  /\ bytes = <<>>
  /\ Len(out) = 44
  /\ SubSeq(out, 1, 4) = StrRIFF
  /\ SubSeq(out, 37, 40) = StrData

----------------------------------------------------------------------------
(* Properties of the ID3 signature *)

\* the buffer begins with the bytes 49 44 33
BeginsWithID3(b) == Len(b) >= 3 /\ SubSeq(b, 1, 3) = <<73, 68, 51>>

\* C20 as stated: every buffer that begins with "ID3" is classified
\* ContainerFile, whatever follows the three bytes and however long it is.
C20_ID3AnyLength ==
  (op = "hasAudioHeader" /\ BeginsWithID3(bytes)) => tag = "ContainerFile"

\* C20 amended: a buffer that begins with "ID3" is classified ContainerFile
\* exactly when at least one byte follows the three, whatever the bytes that
\* follow are; the buffer of the three bytes alone is RawPCM.
C20_ID3FromFourBytes ==
  (op = "hasAudioHeader" /\ BeginsWithID3(bytes)) =>
    (tag = "ContainerFile" <=> Len(bytes) >= 4)

C20_Witness ==
  /\ op = "hasAudioHeader"
  /\ bytes = <<73, 68, 51, 255>>
  /\ tag = "ContainerFile"

----------------------------------------------------------------------------
(* Properties of the object URL the DetailModal owns *)

\* the URLs the modal obtained from createAudioUrl
ModalUrls == 1..Len(urls)

\* no URL is revoked twice, and a URL is live exactly until its revocation
RevokedAtMostOnce ==
  \A u \in ModalUrls :
    /\ modal.revokes[u] <= 1
    /\ urls[u].live <=> modal.revokes[u] = 0

\* the URL the rendered audio control plays is not revoked
SourceIsLive == modal.src # NoUrl => urls[modal.src].live

\* once the modal is gone every URL it obtained has been revoked
NoneLiveAfterUnmount ==
  ~modal.mounted => \A u \in ModalUrls : ~urls[u].live

\* C16: over mounts, replacements of the story audio and unmounts, every URL
\* the modal obtained is revoked once and never twice, never while it is the
\* src of the rendered audio control, and none is left unrevoked once the
\* modal is unmounted.
C16_ReleasedExactlyOnce ==
  /\ RevokedAtMostOnce
  /\ SourceIsLive
  /\ NoneLiveAfterUnmount

----------------------------------------------------------------------------
(* Properties of the classifier and the framer as functions *)

\* what can follow the first four bytes of a buffer
Suffixes == SeqsUpTo({0, 70, 224, 255}, 2)

\* C21: a buffer of at least four bytes is classified as every buffer that
\* has the same first four bytes is, whatever follows them and however long
\* it is.
C21_OnlyTheHeadCounts ==
  (op = "hasAudioHeader" /\ Len(bytes) >= 4) =>
    \A t \in Suffixes :
      Tag(hasAudioHeader(SubSeq(bytes, 1, 4) \o t)) = tag

C21_Witness ==
  /\ op = "hasAudioHeader"
  /\ bytes = MinimalWav
  /\ tag = "ContainerFile"
  /\ Tag(hasAudioHeader(<<82, 73, 70, 70, 255, 0>>)) = tag

\* the results of the addWavHeader calls made so far
Framed == {i \in 1..Len(heap.results) : heap.results[i].fn = "addWavHeader"}

----------------------------------------------------------------------------
(* Properties of the PCM normalization *)

\* C23: on the manual PCM path sample i of the payload, a 16 bit value x,
\* becomes the channel value x / 32768 at position i: -32768 gives -1, 0
\* gives 0, 32767 gives 32767 / 32768, every value is at least -1 and less
\* than 1, and there are as many values as samples.
C23_PcmNormalization ==
  \A ss \in PcmSampleSeqs :
    (calls[1].pcm /\ calls[1].started = 1 /\ calls[1].bytes = SamplesBytes(ss)) =>
      /\ calls[1].buffer.length = Len(ss)
      /\ Len(calls[1].buffer.channelData) = Len(ss)
      /\ \A i \in 1..Len(ss) :
           LET v == calls[1].buffer.channelData[i]
           IN /\ v.num * 32768 = ss[i] * v.den
              /\ v.den > 0
              /\ -v.den <= v.num /\ v.num < v.den
              /\ ss[i] = -32768 => v.num = -v.den
              /\ ss[i] = 0 => v.num = 0
              /\ ss[i] = 32767 => v.num * 32768 = 32767 * v.den

C23_Witness ==
  /\ calls[1].pcm
  /\ calls[1].started = 1
  /\ calls[1].bytes = <<0, 128, 255, 127>>
  /\ calls[1].buffer.channelData[1].num = -32768
  /\ calls[1].buffer.channelData[2].num = 32767

----------------------------------------------------------------------------
(* The audio context of a call that fails *)

\* C25: the context of every call that is over is closed, or a playback
\* whose ended handler closes it is running; this includes the calls whose
\* payload is not valid base64 and the calls in which the decode and the
\* manual PCM path both fail.
C25_NoContextLeak ==
  \A c \in CallIds :
    (calls[c].pc = "done" /\ calls[c].context # "none") =>
      \/ calls[c].context = "closed"
      \/ calls[c].playing

----------------------------------------------------------------------------
(* Properties of the history of clicked words *)

\* C24: a history entry has isLoadingDetails = TRUE only while a details
\* request for it is in flight, also after a reload that restored history
\* from localStorage.
C24_LoadingOnlyWhileInFlight ==
  \A i \in 1..Len(app.history) :
    app.history[i].isLoadingDetails => app.requests[app.history[i].id] # <<>>

\* C27: the ids in history are pairwise distinct, no step removes or reorders
\* an entry, and a click on a word that history holds appends nothing.
C27_HistoryIdsDistinct ==
  /\ [](\A i, j \in 1..Len(app.history) :
          i # j => app.history[i].id # app.history[j].id)
  /\ [][/\ Len(app'.history) >= Len(app.history)
        /\ \A i \in 1..Len(app.history) : app'.history[i].id = app.history[i].id]_vars
  /\ [][\A id \in WordIds :
          (Find(app.history, id) # 0 /\ HandleCardClick(id)) =>
            Len(app'.history) = Len(app.history)]_vars

\* a failed fetch was followed by a click on the same word, which history and
\* the current words both hold, and history holds every word
C27_Witness ==
  /\ Len(app.history) = Cardinality(WordIds)
  /\ app.history[1].story = StoryFailedRetry
  /\ app.history[1].isLoadingDetails
  /\ app.history[1].id \in app.currentWords

\* C28: a details fetch started by a click on a word whose history entry has a
\* story (an edited one included) leaves the story of the entry as it is.
C28_StoryKeptByLaterFetch ==
  [][\A id \in WordIds, d \in Details :
       (/\ DetailsResolve(id, d)
        /\ Head(app.requests[id]) # NoStory) =>
         app'.history[Find(app.history, id)].story
           = app.history[Find(app.history, id)].story]_vars

----------------------------------------------------------------------------
(* Properties of generateWordDetails *)

\* the image request returned no inline data: no candidates, or no part of
\* the content has inlineData
NoInlineData(image) ==
  image.status = "fulfilled" /\
    (~image.value.candidates \/
      \A i \in 1..Len(image.value.parts) : ~image.value.parts[i].inlineData)

\* C29: generateWordDetails resolves when both requests have settled and
\* never rejects; a failed story request gives the story "Story generation
\* failed.", a failed image request or one without inline data gives
\* imageBase64 = "", and the result of the request that succeeded is the one
\* returned.
C29_DetailsAlwaysResolve ==
  /\ details.pc # "rejected"
  /\ (details.story # Pending /\ details.image # Pending) => details.pc = "resolved"
  /\ details.pc = "resolved" =>
       /\ details.story.status = "rejected" => details.result.story = StoryFailed
       /\ details.story.status = "fulfilled" =>
            details.result.story = details.story.value
       /\ (details.image.status = "rejected" \/ NoInlineData(details.image)) =>
            details.result.imageBase64 = ""
       /\ (details.image.status = "fulfilled" /\ ~NoInlineData(details.image)) =>
            details.result.imageBase64 = FirstInlineData(details.image.value.parts)

\* the story request succeeded while the image request failed
C29_Witness ==
  /\ details.pc = "resolved"
  /\ details.story = Fulfilled(StoryGenerated)
  /\ details.image = Rejected
  /\ details.result = [story |-> StoryGenerated, imageBase64 |-> ""]

----------------------------------------------------------------------------
(* Properties of word generation *)

\* C26: at most one word-generation request is in flight, and loading is
\* TRUE exactly while one is.
C26_OneGenerationInFlight ==
  /\ gen.requests <= 1
  /\ gen.state.loading <=> gen.requests > 0

----------------------------------------------------------------------------
(* Properties of the busy flags *)

\* C30: a busy flag is set only while its handler is suspended at an await,
\* a flag that is set is cleared again, and a click on a control whose flag
\* is set starts no request and changes no control.
C30_BusyFlagsClear ==
  /\ [](\A c \in Controls : busy.ctl[c].flag <=> busy.ctl[c].pc # "idle")
  /\ [][\A c \in Controls :
          (busy.ctl[c].flag /\ Click(c)) =>
            /\ busy'.tts = busy.tts
            /\ busy'.ctl = busy.ctl]_vars
  /\ \A c \in Controls : busy.ctl[c].flag ~> ~busy.ctl[c].flag

\* playback of a malformed payload was attempted from the modal, logged its
\* error and the flag is clear again, after three requests
C30_Witness ==
  /\ busy.last = "Error playing audio"
  /\ busy.pronunciationBase64 = "malformed"
  /\ ~busy.ctl["isPlayingWord"].flag
  /\ busy.tts = MaxTts

====
